---- MODULE Spec2Model ----
(***************************************************************************)
(* Model of RobustDetroitGeofence (generate_motion_forecasting_single_kml) *)
(* : the coordinate cache, the projection of planar points, the three      *)
(* containment predicates, the composite classification, the detection     *)
(* record and the per-scenario sample analysis.                            *)
(*                                                                         *)
(* Latitudes and longitudes are integers in millidegrees (42.255 degrees   *)
(* is 42255), so every comparison of the source is exact.  A quotient of   *)
(* two small integers (the confidence) is the reduced fraction <<n, d>>:   *)
(* two such quotients are equal as floats exactly when the fractions are.  *)
(*                                                                         *)
(* Every Python value is a record with a tag, so that values of different  *)
(* types can be compared: None, a raised exception, a bool, a gps tuple.   *)
(***************************************************************************)
EXTENDS Integers, Sequences, FiniteSets, TLC

VARIABLES
    prov,              \* convert_city_coords_to_wgs84 for city DTW: point -> outcome
    coordinate_cache,  \* RobustDetroitGeofence.coordinate_cache
    op,                \* the public operation called last, with its arguments
    ret,               \* what that call returned (Raised: an exception escaped)
    calls,             \* the methods and providers entered during that call, in order
    projected,         \* history: what the calls of coordinates_to_gps returned, per point
    invoked,           \* history: points the projection provider was invoked for
    scenario,          \* map_data of the scenario file at hand
    detroit_only,            \* OptimizedKMLProcessor.detroit_only
    global_coordinate_cache, \* OptimizedKMLProcessor.global_coordinate_cache
    city_prov,         \* convert_city_coords_to_wgs84 for the other cities
    pc,                \* create_split_kml: where the generator is
    scenario_files,    \* the scenario_files collected from the split directory
    max_workers,       \* MotionForecastingSingleKMLGenerator.max_workers
    batches,           \* the batches cut from scenario_files
    future_to_batch,   \* the batch submitted with each future
    worker,            \* per future: state of its process_scenario_batch_worker call
    processors,        \* the OptimizedKMLProcessor objects constructed, with their caches
    writers,           \* history: per processor and cache, the batch that wrote each entry
    reads,             \* history: <<batch reading, batch that wrote>> of every cache hit
    completed,         \* the futures that completed and as_completed has yet to yield
    all_features,      \* all_features of create_split_kml
    total_stats,       \* total_stats['scenarios_processed'] of create_split_kml
    downloader,        \* the class of the downloader at work
    all_downloads,     \* all_downloads: per task, how its download ends
    download_workers,  \* max_workers of the thread pool
    download_stats,    \* download_stats, shared by the threads
    thread,            \* per task: where its download_worker call is
    map_files,         \* per split: the map files of its log directories, in order
    hd_pc,             \* generate_all_kml_files: where the generator is
    kml_chunks,        \* per split: the number of features of each KML chunk
    current_chunk,     \* current_chunk of create_split_kml
    feature_count,     \* feature_count of create_split_kml
    stats,             \* DetroitHDMapKMLGenerator.stats
    listing,           \* what the s5cmd listing of the split does
    map_checks         \* per listed log: what the s5cmd check of its map does

splitVars ==
    <<pc, scenario_files, max_workers, batches, future_to_batch, worker, processors,
      writers, reads, completed, all_features, total_stats>>
downloadVars ==
    <<downloader, all_downloads, download_workers, download_stats, thread>>
hdVars == <<map_files, hd_pc, kml_chunks, current_chunk, feature_count, stats>>
findVars == <<listing, map_checks>>
toolVars == <<downloadVars, hdVars, findVars>>
vars == <<prov, coordinate_cache, op, ret, calls, projected, invoked, scenario,
          detroit_only, global_coordinate_cache, city_prov, splitVars, toolVars>>

(***************************************************************************)
(* Bounds of the model.                                                    *)
(***************************************************************************)
\* every sequence of lanes up to this length is analysed
MaxShortLanes == 3
\* the longest map analysed (two runs of identical lanes)
MaxLanes == 11
\* the longest polyline converted
MaxPolyline == 2
\* the most scenario files in a split directory
MaxFiles == 9
\* the most (split, id) tasks of a downloader
MaxDownloads == 3
\* the most scenario files of a split processed by two workers side by side
MaxSideBySide == 6
\* the most futures of a split whose call raises
MaxRaised == 1
\* the most map files under the split directories of detroit_logs
MaxMapFiles == 3
\* the most lines of the listing of a split
MaxLines == 3

(***************************************************************************)
(* Values.                                                                 *)
(***************************************************************************)
\* Python None
None == [tag |-> "None"]
\* an exception that left the called method
Raised == [tag |-> "Raised"]
Bool(b) == [tag |-> "bool", b |-> b]
Gps(lat, lon, z) == [tag |-> "gps", lat |-> lat, lon |-> lon, z |-> z]
IsRaised(v) == v.tag = "Raised"
IsNone(v) == v.tag = "None"

\* planar (x, y) pairs; the first lies in the coordinate-range box, the second not
XY == { <<3000, 2000>>, <<13001, 7000>> }
Zs == { 0, 7 }

\* what the provider does for a point: it raises, or it returns (lat, lon) in
\* millidegrees: inside the Detroit ring; inside the Michigan box only; on the
\* corner of the Michigan box; outside both; the degenerate (0.05, 0.05)
Returns(lat, lon) == [raises |-> FALSE, lat |-> lat, lon |-> lon]
ProviderRaises == [raises |-> TRUE, lat |-> 0, lon |-> 0]
ProviderOutcomes ==
    { Returns(42300, -83000), Returns(42700, -84000), Returns(41500, -84500),
      Returns(40000, -83000), Returns(50, 50), ProviderRaises }

Abs(v) == IF v < 0 THEN -v ELSE v

\* abs(lat) > 0.1 and abs(lon) > 0.1
DegenerateThreshold == 100
IsUsable(lat, lon) == Abs(lat) > DegenerateThreshold /\ Abs(lon) > DegenerateThreshold

\* the ring of (lon, lat) vertices, first and last coinciding
detroit_polygon_gps ==
    << <<-83287, 42255>>, <<-83287, 42450>>, <<-82910, 42450>>,
       <<-82910, 42255>>, <<-83287, 42255>> >>

RingLons == { detroit_polygon_gps[i][1] : i \in DOMAIN detroit_polygon_gps }
RingLats == { detroit_polygon_gps[i][2] : i \in DOMAIN detroit_polygon_gps }
Min(S) == CHOOSE m \in S : \A s \in S : m <= s
Max(S) == CHOOSE m \in S : \A s \in S : s <= m

\* variant: the point is built as Point(lat, lon)
detroit_polygon_containsAs(lon, lat) ==
    /\ Min(RingLons) < lat /\ lat < Max(RingLons)
    /\ Min(RingLats) < lon /\ lon < Max(RingLats)
\* Polygon.contains(Point(lon, lat)): the interior of the ring, its boundary
\* excluded; the ring is an axis-aligned rectangle
detroit_polygon_contains(lon, lat) ==
    /\ Min(RingLons) < lon /\ lon < Max(RingLons)
    /\ Min(RingLats) < lat /\ lat < Max(RingLats)

\* variant: the box ends south of the Detroit ring
michigan_boundsAs ==
    [min_lat |-> 41500, max_lat |-> 42000, min_lon |-> -84500, max_lon |-> -82000]
michigan_bounds ==
    [min_lat |-> 41500, max_lat |-> 43000, min_lon |-> -84500, max_lon |-> -82000]

\* variant: the bounds are excluded
in_michigan_boundsAs(lat, lon) ==
    /\ michigan_bounds.min_lat < lat /\ lat < michigan_bounds.max_lat
    /\ michigan_bounds.min_lon < lon /\ lon < michigan_bounds.max_lon
\* min_lat <= lat <= max_lat and min_lon <= lon <= max_lon
in_michigan_bounds(lat, lon) ==
    /\ michigan_bounds.min_lat <= lat /\ lat <= michigan_bounds.max_lat
    /\ michigan_bounds.min_lon <= lon /\ lon <= michigan_bounds.max_lon

detroit_bounds == [min_x |-> 3000, max_x |-> 13000, min_y |-> 2000, max_y |-> 7000]

\* one entry of the call record
Ev(fn, xy, method) == [fn |-> fn, xy |-> xy, method |-> method]

\* what a method hands back: its value, the cache after it, what it entered
Out(r, cache, evs) == [ret |-> r, cache |-> cache, calls |-> evs]

convert_city_coords_to_wgs84(xy) == prov[xy]

(***************************************************************************)
(* RobustDetroitGeofence                                                   *)
(***************************************************************************)
\* the except clause of coordinates_to_gps
coordinates_to_gps_except(xy) == None

\* variant: the result is never stored
cache_storeAs(cache, cache_key, lat, lon) == cache
\* variant: the write replaces the dictionary by one holding the new entry only
cache_storeReplacing(cache, cache_key, lat, lon) == cache_key :> <<lat, lon>>
\* the cache write of coordinates_to_gps, made before the validity check
cache_store(cache, cache_key, lat, lon) == cache @@ (cache_key :> <<lat, lon>>)

\* variant: a hit answers with the default z of the signature
cache_hitAs(cache, cache_key, z) == Gps(cache[cache_key][1], cache[cache_key][2], 0)
\* lat, lon = self.coordinate_cache[cache_key]; return lat, lon, z
cache_hit(cache, cache_key, z) == Gps(cache[cache_key][1], cache[cache_key][2], z)

coordinates_to_gps(cache, x, y, z) ==
    LET cache_key == <<x, y>>
        enter == <<Ev("coordinates_to_gps", cache_key, "")>>
    IN  IF cache_key \in DOMAIN cache
        THEN Out(cache_hit(cache, cache_key, z), cache, enter)
        ELSE LET lat_lon == convert_city_coords_to_wgs84(cache_key)
                 evs == enter \o <<Ev("convert_city_coords_to_wgs84", cache_key, "")>>
             IN  IF lat_lon.raises
                 THEN Out(coordinates_to_gps_except(cache_key), cache, evs)
                 ELSE LET lat == lat_lon.lat
                          lon == lat_lon.lon
                      IN  Out(IF IsUsable(lat, lon) THEN Gps(lat, lon, z) ELSE None,
                              cache_store(cache, cache_key, lat, lon), evs)

is_detroit_by_gps_polygon(cache, x, y, z) ==
    LET enter == <<Ev("is_detroit_by_gps_polygon", <<x, y>>, "")>>
        gps_coords == coordinates_to_gps(cache, x, y, z)
        g == gps_coords.ret
    IN  IF IsRaised(g) THEN Out(Raised, gps_coords.cache, enter \o gps_coords.calls)
        ELSE IF IsNone(g) THEN Out(Bool(FALSE), gps_coords.cache, enter \o gps_coords.calls)
        ELSE Out(Bool(detroit_polygon_contains(g.lon, g.lat)), gps_coords.cache,
                 enter \o gps_coords.calls
                       \o <<Ev("detroit_polygon.contains", <<x, y>>, "")>>)

\* variant: the point is projected first, and a failed projection gives False
is_detroit_by_coordinate_rangesAs(cache, x, y) ==
    LET gps_coords == coordinates_to_gps(cache, x, y, 0)
    IN  Out(Bool(/\ gps_coords.ret.tag = "gps"
                 /\ detroit_bounds.min_x <= x /\ x <= detroit_bounds.max_x
                 /\ detroit_bounds.min_y <= y /\ y <= detroit_bounds.max_y),
            gps_coords.cache,
            <<Ev("is_detroit_by_coordinate_ranges", <<x, y>>, "")>> \o gps_coords.calls)
is_detroit_by_coordinate_ranges(cache, x, y) ==
    Out(Bool(/\ detroit_bounds.min_x <= x /\ x <= detroit_bounds.max_x
             /\ detroit_bounds.min_y <= y /\ y <= detroit_bounds.max_y),
        cache, <<Ev("is_detroit_by_coordinate_ranges", <<x, y>>, "")>>)

\* variant: no except clause, the provider's exception leaves the method
city_detection_exceptAs(xy) == Raised
\* the except clause of is_detroit_by_city_detection
city_detection_except(xy) == Bool(FALSE)

is_detroit_by_city_detection(cache, x, y, z) ==
    LET lat_lon == convert_city_coords_to_wgs84(<<x, y>>)
        evs == << Ev("is_detroit_by_city_detection", <<x, y>>, ""),
                  Ev("convert_city_coords_to_wgs84", <<x, y>>, "") >>
    IN  IF lat_lon.raises
        THEN Out(city_detection_except(<<x, y>>), cache, evs)
        ELSE IF IsUsable(lat_lon.lat, lat_lon.lon)
        THEN LET lat == lat_lon.lat
                 lon == lat_lon.lon
             IN  Out(Bool(in_michigan_bounds(lat, lon)), cache, evs)
        ELSE Out(Bool(FALSE), cache, evs)

\* variant: both checks evaluated, polygon first, and combined
comprehensive_autoAs(cache, x, y, z) ==
    LET p == is_detroit_by_gps_polygon(cache, x, y, z)
    IN  IF IsRaised(p.ret) THEN p
        ELSE LET c == is_detroit_by_city_detection(p.cache, x, y, z)
             IN  IF IsRaised(c.ret) THEN Out(Raised, c.cache, p.calls \o c.calls)
                 ELSE Out(Bool(c.ret.b /\ p.ret.b), c.cache, p.calls \o c.calls)
\* the else branch of is_detroit_comprehensive: broad check first, polygon
\* check only if it passed
comprehensive_auto(cache, x, y, z) ==
    LET city_detection == is_detroit_by_city_detection(cache, x, y, z)
    IN  IF IsRaised(city_detection.ret) THEN city_detection
        ELSE IF city_detection.ret.b
        THEN LET p == is_detroit_by_gps_polygon(city_detection.cache, x, y, z)
             IN  Out(p.ret, p.cache, city_detection.calls \o p.calls)
        ELSE Out(Bool(FALSE), city_detection.cache, city_detection.calls)

Methods == { "auto", "gps_polygon", "coordinate_ranges", "city_detection" }

\* variant: the polygon method runs behind the broad check, as auto does
is_detroit_comprehensiveAs(cache, x, y, z, method) ==
    LET enter == <<Ev("is_detroit_comprehensive", <<x, y>>, method)>>
        r == IF method = "coordinate_ranges"
             THEN is_detroit_by_coordinate_ranges(cache, x, y)
             ELSE IF method = "city_detection"
             THEN is_detroit_by_city_detection(cache, x, y, z)
             ELSE comprehensive_auto(cache, x, y, z)
    IN  Out(r.ret, r.cache, enter \o r.calls)
is_detroit_comprehensive(cache, x, y, z, method) ==
    LET enter == <<Ev("is_detroit_comprehensive", <<x, y>>, method)>>
        r == IF method = "gps_polygon" THEN is_detroit_by_gps_polygon(cache, x, y, z)
             ELSE IF method = "coordinate_ranges"
             THEN is_detroit_by_coordinate_ranges(cache, x, y)
             ELSE IF method = "city_detection"
             THEN is_detroit_by_city_detection(cache, x, y, z)
             ELSE comprehensive_auto(cache, x, y, z)
    IN  Out(r.ret, r.cache, enter \o r.calls)

\* variant: after a failed projection no predicate is evaluated and every
\* field is reported False
get_detection_infoAs(cache, x, y, z) ==
    LET enter == <<Ev("get_detection_info", <<x, y>>, "")>>
        g == coordinates_to_gps(cache, x, y, z)
        c == is_detroit_by_city_detection(g.cache, x, y, z)
        r == is_detroit_by_coordinate_ranges(c.cache, x, y)
        p == is_detroit_by_gps_polygon(r.cache, x, y, z)
        a == is_detroit_comprehensive(p.cache, x, y, z, "auto")
    IN  IF g.ret.tag = "gps"
        THEN Out([tag |-> "info",
                  coordinates |-> <<x, y, z>>,
                  gps_conversion |-> g.ret,
                  city_detection |-> c.ret.b,
                  coordinate_ranges |-> r.ret.b,
                  gps_polygon |-> p.ret.b,
                  comprehensive_result |-> a.ret.b],
                 a.cache, enter \o g.calls \o c.calls \o r.calls \o p.calls \o a.calls)
        ELSE Out([tag |-> "info",
                  coordinates |-> <<x, y, z>>,
                  gps_conversion |-> g.ret,
                  city_detection |-> FALSE,
                  coordinate_ranges |-> FALSE,
                  gps_polygon |-> FALSE,
                  comprehensive_result |-> FALSE],
                 g.cache, enter \o g.calls)
get_detection_info(cache, x, y, z) ==
    LET enter == <<Ev("get_detection_info", <<x, y>>, "")>>
        g == coordinates_to_gps(cache, x, y, z)
        c == is_detroit_by_city_detection(g.cache, x, y, z)
        r == is_detroit_by_coordinate_ranges(c.cache, x, y)
        \* if gps_coords: a tuple is truthy, None is not
        p == IF g.ret.tag = "gps"
             THEN is_detroit_by_gps_polygon(r.cache, x, y, z)
             ELSE Out(Bool(FALSE), r.cache, <<>>)
        a == is_detroit_comprehensive(p.cache, x, y, z, "auto")
    IN  IF IsRaised(g.ret) THEN Out(Raised, g.cache, enter \o g.calls)
        ELSE IF IsRaised(c.ret) THEN Out(Raised, c.cache, enter \o g.calls \o c.calls)
        ELSE IF IsRaised(p.ret)
        THEN Out(Raised, p.cache, enter \o g.calls \o c.calls \o r.calls \o p.calls)
        ELSE IF IsRaised(a.ret)
        THEN Out(Raised, a.cache,
                 enter \o g.calls \o c.calls \o r.calls \o p.calls \o a.calls)
        ELSE Out([tag |-> "info",
                  coordinates |-> <<x, y, z>>,
                  gps_conversion |-> g.ret,
                  city_detection |-> c.ret.b,
                  coordinate_ranges |-> r.ret.b,
                  gps_polygon |-> p.ret.b,
                  comprehensive_result |-> a.ret.b],
                 a.cache, enter \o g.calls \o c.calls \o r.calls \o p.calls \o a.calls)

(***************************************************************************)
(* analyze_scenario_location                                               *)
(***************************************************************************)
\* lane_data of map_data['lane_segments']: without the key 'left_lane_boundary',
\* with an empty boundary, or with a boundary whose first point is (x, y, z)
NoLeftBoundary == [kind |-> "missing"]
EmptyLeftBoundary == [kind |-> "empty"]
Lane(x, y, z) == [kind |-> "points", first_point |-> <<x, y, z>>]
LaneDatas ==
    { NoLeftBoundary, EmptyLeftBoundary } \cup { Lane(xy[1], xy[2], 0) : xy \in XY }

\* the 10 of "if i >= 10: break"
SampleLimit == 10
\* sample_coords[:5], detroit_detections[:5]
ShownSamples == 5

RECURSIVE Gcd(_, _)
Gcd(a, b) == IF b = 0 THEN a ELSE Gcd(b, a % b)

\* a / b of two ints: ZeroDivisionError, or the quotient as a reduced fraction
Float(n, d) == [tag |-> "float", n |-> n, d |-> d]
TrueDiv(a, b) ==
    IF b = 0 THEN Raised ELSE Float(a \div Gcd(a, b), b \div Gcd(a, b))
\* f > 0.5
GreaterThanHalf(f) == 2 * f.n > f.d

\* variant: the loop stops one lane late
loop_breakAs(i) == i > SampleLimit
\* if i >= 10: break
loop_break(i) == i >= SampleLimit

\* variant: the threshold 0.5 is included
GreaterOrEqualHalf(f) == 2 * f.n >= f.d
is_detroit_scenarioAs(detroit_count, total_samples) ==
    IF total_samples > 0
    THEN Bool(GreaterOrEqualHalf(TrueDiv(detroit_count, total_samples)))
    ELSE Bool(FALSE)
\* (detroit_count / total_samples) > 0.5 if total_samples > 0 else False
is_detroit_scenario(detroit_count, total_samples) ==
    IF total_samples > 0
    THEN Bool(GreaterThanHalf(TrueDiv(detroit_count, total_samples)))
    ELSE Bool(FALSE)

\* variant: the division is not guarded
detroit_confidenceAs(detroit_count, total_samples) ==
    TrueDiv(detroit_count, total_samples)
\* detroit_count / total_samples if total_samples > 0 else 0.0
detroit_confidence(detroit_count, total_samples) ==
    IF total_samples > 0 THEN TrueDiv(detroit_count, total_samples) ELSE Float(0, 1)

\* one pass of the loop body for a lane with a boundary: acc after d, the
\* outcome of is_detroit_comprehensive(x, y, z) for first_point
sampled(acc, first_point, d) ==
    IF IsRaised(d.ret)
    THEN [acc EXCEPT !.raised = TRUE, !.cache = d.cache, !.calls = @ \o d.calls]
    ELSE [sample_coords |-> Append(acc.sample_coords, first_point),
          detroit_detections |-> Append(acc.detroit_detections, d.ret.b),
          cache |-> d.cache,
          calls |-> acc.calls \o d.calls,
          raised |-> FALSE]

\* the for loop over enumerate(map_data['lane_segments'].items()); i counts from 0
RECURSIVE sample_lanes(_, _, _)
sample_lanes(lanes, i, acc) ==
    IF i >= Len(lanes) \/ acc.raised THEN acc
    ELSE IF loop_break(i) THEN acc
    ELSE sample_lanes(lanes, i + 1,
           IF lanes[i + 1].kind = "points"
           THEN sampled(acc, lanes[i + 1].first_point,
                        is_detroit_comprehensive(acc.cache,
                            lanes[i + 1].first_point[1], lanes[i + 1].first_point[2],
                            lanes[i + 1].first_point[3], "auto"))
           ELSE acc)

\* sum(detroit_detections): True counts 1
RECURSIVE SumBools(_)
SumBools(s) ==
    IF s = <<>> THEN 0 ELSE (IF Head(s) THEN 1 ELSE 0) + SumBools(Tail(s))

\* s[:n]
Take(s, n) == SubSeq(s, 1, IF Len(s) < n THEN Len(s) ELSE n)

\* the returned dict, from the lists the loop built
location_info(acc, detroit_count, total_samples, is_detroit, confidence) ==
    IF acc.raised \/ IsRaised(is_detroit) \/ IsRaised(confidence)
    THEN Out(Raised, acc.cache, acc.calls)
    ELSE Out([tag |-> "analysis",
              is_detroit |-> is_detroit.b,
              detroit_confidence |-> confidence,
              total_samples |-> total_samples,
              detroit_samples |-> detroit_count,
              sample_coordinates |-> Take(acc.sample_coords, ShownSamples),
              sample_detections |-> Take(acc.detroit_detections, ShownSamples)],
             acc.cache, acc.calls)

\* lines 120 to 125 on the lists the loop built
summarize(acc, detroit_count, total_samples) ==
    location_info(acc, detroit_count, total_samples,
                  is_detroit_scenario(detroit_count, total_samples),
                  detroit_confidence(detroit_count, total_samples))

counted(acc) ==
    summarize(acc, SumBools(acc.detroit_detections), Len(acc.detroit_detections))

analyze_scenario_location(cache, map_data) ==
    counted(IF map_data.has_lane_segments
            THEN sample_lanes(map_data.lane_segments, 0,
                   [sample_coords |-> <<>>, detroit_detections |-> <<>>,
                    cache |-> cache,
                    calls |-> <<Ev("analyze_scenario_location", <<0, 0>>, "")>>,
                    raised |-> FALSE])
            ELSE [sample_coords |-> <<>>, detroit_detections |-> <<>>,
                  cache |-> cache,
                  calls |-> <<Ev("analyze_scenario_location", <<0, 0>>, "")>>,
                  raised |-> FALSE])

(***************************************************************************)
(* OptimizedKMLProcessor: get_gps_from_coords and convert_polyline_to_gps  *)
(***************************************************************************)
\* city_names of get_gps_from_coords, in the order tried
city_names == << "DTW", "ATX", "MIA", "PAO", "PIT", "WDC" >>
OtherCities == { city_names[i] : i \in 2..Len(city_names) }

\* convert_city_coords_to_wgs84(point_2d, city_name)
convert_city_coords_to_wgs84_city(xy, city_name) ==
    IF city_name = "DTW" THEN prov[xy] ELSE city_prov[xy][city_name]

\* what a method of the processor hands back: its value, the two caches after
\* it, what it entered
POut(r, gcache, cache, evs) ==
    [ret |-> r, global_cache |-> gcache, cache |-> cache, calls |-> evs]

\* lat, lon = self.global_coordinate_cache[cache_key]; return lat, lon, z
global_cache_hit(gcache, cache_key, z) ==
    Gps(gcache[cache_key][1], gcache[cache_key][2], z)

\* self.global_coordinate_cache[cache_key] = (lat, lon)
global_cache_store(gcache, cache_key, lat, lon) ==
    gcache @@ (cache_key :> <<lat, lon>>)

\* the loop over city_names: the first city with a usable result is stored
\* and returned; a city that raises or is degenerate is passed over
RECURSIVE city_loop(_, _, _, _, _, _)
city_loop(gcache, cache, cache_key, z, i, evs) ==
    IF i > Len(city_names) THEN POut(Gps(0, 0, z), gcache, cache, evs)
    ELSE LET lat_lon == convert_city_coords_to_wgs84_city(cache_key, city_names[i])
             entered == Append(evs, Ev("convert_city_coords_to_wgs84", cache_key,
                                       city_names[i]))
         IN  IF ~lat_lon.raises /\ IsUsable(lat_lon.lat, lat_lon.lon)
             THEN POut(Gps(lat_lon.lat, lat_lon.lon, z),
                       global_cache_store(gcache, cache_key, lat_lon.lat, lat_lon.lon),
                       cache, entered)
             ELSE city_loop(gcache, cache, cache_key, z, i + 1, entered)

\* result = self.detroit_geofence.coordinates_to_gps(x, y, z); if result: ...
geofence_result(gcache, cache_key, z, evs, result) ==
    IF IsRaised(result.ret)
    THEN POut(Raised, gcache, result.cache, evs \o result.calls)
    ELSE IF result.ret.tag = "gps"
    THEN POut(Gps(result.ret.lat, result.ret.lon, z),
              global_cache_store(gcache, cache_key, result.ret.lat, result.ret.lon),
              result.cache, evs \o result.calls)
    ELSE city_loop(gcache, result.cache, cache_key, z, 1, evs \o result.calls)

get_gps_from_coords(gcache, cache, only, x, y, z) ==
    IF <<x, y>> \in DOMAIN gcache
    THEN POut(global_cache_hit(gcache, <<x, y>>, z), gcache, cache,
              <<Ev("get_gps_from_coords", <<x, y>>, "")>>)
    ELSE IF only
    THEN geofence_result(gcache, <<x, y>>, z, <<Ev("get_gps_from_coords", <<x, y>>, "")>>,
                         coordinates_to_gps(cache, x, y, z))
    ELSE city_loop(gcache, cache, <<x, y>>, z, 1,
                   <<Ev("get_gps_from_coords", <<x, y>>, "")>>)

\* variant: every converted point is kept
keep_pointAs(lat, lon) == TRUE
\* if lat != 0.0 or lon != 0.0
keep_point(lat, lon) == lat # 0 \/ lon # 0

\* gps_coords.append((lon, lat, alt)) after one get_gps_from_coords
appended(acc, g) ==
    IF IsRaised(g.ret)
    THEN [acc EXCEPT !.raised = TRUE, !.global_cache = g.global_cache,
                     !.cache = g.cache, !.calls = @ \o g.calls]
    ELSE [gps_coords |-> IF keep_point(g.ret.lat, g.ret.lon)
                         THEN Append(acc.gps_coords, <<g.ret.lon, g.ret.lat, g.ret.z>>)
                         ELSE acc.gps_coords,
          global_cache |-> g.global_cache,
          cache |-> g.cache,
          calls |-> acc.calls \o g.calls,
          raised |-> FALSE]

\* for point in polyline
RECURSIVE polyline_loop(_, _, _, _)
polyline_loop(polyline, i, only, acc) ==
    IF i > Len(polyline) \/ acc.raised THEN acc
    ELSE polyline_loop(polyline, i + 1, only,
           appended(acc, get_gps_from_coords(acc.global_cache, acc.cache, only,
                           polyline[i].x, polyline[i].y, polyline[i].z)))

polyline_result(acc) ==
    POut(IF acc.raised THEN Raised ELSE [tag |-> "coords", coords |-> acc.gps_coords],
         acc.global_cache, acc.cache, acc.calls)

convert_polyline_to_gps(gcache, cache, only, polyline) ==
    polyline_result(polyline_loop(polyline, 1, only,
        [gps_coords |-> <<>>, global_cache |-> gcache, cache |-> cache,
         calls |-> <<Ev("convert_polyline_to_gps", <<0, 0>>, "")>>, raised |-> FALSE]))

(***************************************************************************)
(* process_scenario_batch: one scenario of a batch                         *)
(***************************************************************************)
\* lane_data['left_lane_boundary'] of a lane that has the key
left_lane_boundary(lane_data) ==
    IF lane_data.kind = "points" THEN lane_data.left_lane_boundary ELSE <<>>

\* left_coords of one lane, and the feature appended if len(left_coords) >= 2
left_feature(acc, scenario_id, lane_id, left_coords) ==
    [features |->
       IF ~IsRaised(left_coords.ret) /\ Len(left_coords.ret.coords) >= 2
       THEN Append(acc.features,
                   [type |-> "linestring", name |-> <<scenario_id, lane_id, "left">>,
                    coords |-> left_coords.ret.coords])
       ELSE acc.features,
     global_cache |-> left_coords.global_cache,
     cache |-> left_coords.cache,
     calls |-> acc.calls \o left_coords.calls]

\* right_coords of a lane that has a right boundary only, and the feature
\* appended if len(right_coords) >= 2
right_feature(acc, scenario_id, lane_id, right_coords) ==
    [features |->
       IF ~IsRaised(right_coords.ret) /\ Len(right_coords.ret.coords) >= 2
       THEN Append(acc.features,
                   [type |-> "linestring", name |-> <<scenario_id, lane_id, "right">>,
                    coords |-> right_coords.ret.coords])
       ELSE acc.features,
     global_cache |-> right_coords.global_cache,
     cache |-> right_coords.cache,
     calls |-> acc.calls \o right_coords.calls]

\* for lane_id, lane_data in map_data['lane_segments'].items()
RECURSIVE lane_loop(_, _, _, _, _)
lane_loop(lanes, i, only, scenario_id, acc) ==
    IF i > Len(lanes) THEN acc
    ELSE lane_loop(lanes, i + 1, only, scenario_id,
           IF lanes[i].kind = "missing" THEN acc
           ELSE IF lanes[i].kind = "right"
           THEN right_feature(acc, scenario_id, i,
                  convert_polyline_to_gps(acc.global_cache, acc.cache, only,
                                          lanes[i].right_lane_boundary))
           ELSE left_feature(acc, scenario_id, i,
                  convert_polyline_to_gps(acc.global_cache, acc.cache, only,
                                          left_lane_boundary(lanes[i]))))

\* include_lanes is True and include_drivable False, the defaults
extract_scenario_features(gcache, cache, only, map_data, scenario_id, evs) ==
    IF map_data.has_lane_segments
    THEN lane_loop(map_data.lane_segments, 1, only, scenario_id,
                   [features |-> <<>>, global_cache |-> gcache, cache |-> cache,
                    calls |-> evs])
    ELSE [features |-> <<>>, global_cache |-> gcache, cache |-> cache, calls |-> evs]

\* the literal pieces of feature['name'], which is
\* f"{split}/{scenario_id[:8]}/L{lane_id}/left" for a left boundary; the pieces
\* filled in are the name of the split, hexadecimal digits and the lane id
name_literals(name) == { "/", "L", name[3] }
\* word in feature['name'], for a word that is no part of a split name or an id
in_name(word, name) == word \in name_literals(name)

\* the if / elif / elif over one feature of the stats update
feature_stat(counters, feature) ==
    IF in_name("lane_segment", feature.name)
    THEN [counters EXCEPT !.lane_segments = @ + 1]
    ELSE IF in_name("crossing", feature.name)
    THEN [counters EXCEPT !.pedestrian_crossings = @ + 1]
    ELSE IF in_name("drivable", feature.name)
    THEN [counters EXCEPT !.drivable_areas = @ + 1]
    ELSE counters
\* for feature in scenario_features: the counters of batch_stats after the loop
RECURSIVE feature_stats(_, _)
feature_stats(counters, scenario_features) ==
    IF scenario_features = <<>> THEN counters
    ELSE feature_stats(feature_stat(counters, Head(scenario_features)),
                       Tail(scenario_features))

\* batch_features.extend(scenario_features); scenarios_processed += 1
processed_scenario(extracted) ==
    [features |-> extracted.features, global_cache |-> extracted.global_cache,
     cache |-> extracted.cache, calls |-> extracted.calls, scenarios_processed |-> 1]

\* variant: the verdict of the analysis is not looked at
filtered_scenarioAs(gcache, only, map_data, scenario_id, analysis) ==
    processed_scenario(
      extract_scenario_features(gcache, analysis.cache, only, map_data, scenario_id,
                                analysis.calls))
\* if not analysis['is_detroit']: continue
filtered_scenario(gcache, only, map_data, scenario_id, analysis) ==
    IF IsRaised(analysis.ret) \/ ~analysis.ret.is_detroit
    THEN [features |-> <<>>, global_cache |-> gcache, cache |-> analysis.cache,
          calls |-> analysis.calls, scenarios_processed |-> 0]
    ELSE processed_scenario(
           extract_scenario_features(gcache, analysis.cache, only, map_data, scenario_id,
                                     analysis.calls))

\* the body of the loop over scenario_batch
process_scenario(gcache, cache, only, map_data, scenario_id) ==
    IF only
    THEN filtered_scenario(gcache, only, map_data, scenario_id,
                           analyze_scenario_location(cache, map_data))
    ELSE processed_scenario(
           extract_scenario_features(gcache, cache, only, map_data, scenario_id, <<>>))

(***************************************************************************)
(* MotionForecastingSingleKMLGenerator.create_split_kml: batching          *)
(***************************************************************************)
\* a // b of Python for b > 0 and a >= 0
FloorDiv(a, b) == a \div b

\* variant: the quotient is rounded up
batch_size_ofAs(files, workers) == FloorDiv(Len(files), workers * 4) + 1
\* max(1, len(scenario_files) // (self.max_workers * 4))
batch_size_of(files, workers) ==
    LET quotient == FloorDiv(Len(files), workers * 4)
    IN  IF quotient > 1 THEN quotient ELSE 1

\* variant: the slice runs one element into the next batch
batch_sliceAs(files, i, batch_size) ==
    SubSeq(files, i + 1, IF i + batch_size + 1 < Len(files) THEN i + batch_size + 1
                         ELSE Len(files))
\* scenario_files[i:i + batch_size], i counted from 0
batch_slice(files, i, batch_size) ==
    SubSeq(files, i + 1, IF i + batch_size < Len(files) THEN i + batch_size ELSE Len(files))

\* for i in range(0, len(scenario_files), batch_size): batches.append(...)
RECURSIVE batch_loop(_, _, _, _)
batch_loop(files, i, batch_size, acc) ==
    IF i >= Len(files) THEN acc
    ELSE batch_loop(files, i + batch_size, batch_size,
                    Append(acc, batch_slice(files, i, batch_size)))

create_batches(files, workers) ==
    batch_loop(files, 0, batch_size_of(files, workers), <<>>)

(***************************************************************************)
(* The maps analysed: a map without the key 'lane_segments', every         *)
(* sequence of at most MaxShortLanes lanes, and the maps of SampleLimit to *)
(* MaxLanes lanes made of two runs of identical lanes.                     *)
(***************************************************************************)
SeqsUpTo(S, n) == UNION { [1..k -> S] : k \in 0..n }
TwoRuns(a, b, n, k) == [j \in 1..n |-> IF j <= k THEN a ELSE b]
LaneSeqs ==
    SeqsUpTo(LaneDatas, MaxShortLanes)
      \cup { TwoRuns(a, b, n, k) :
               a \in LaneDatas, b \in LaneDatas, n \in SampleLimit..MaxLanes,
               k \in 0..MaxLanes }
NoLaneSegments == [has_lane_segments |-> FALSE, lane_segments |-> <<>>]
MapDatas ==
    { NoLaneSegments }
      \cup { [has_lane_segments |-> TRUE, lane_segments |-> l] : l \in LaneSeqs }

\* the other cities' answers for a point: all degenerate; all raising; ATX
\* raising, MIA degenerate and the remaining three usable
AllDegenerate == [city_name \in OtherCities |-> Returns(50, 50)]
AllRaise == [city_name \in OtherCities |-> ProviderRaises]
PaoFirst ==
    [city_name \in OtherCities |->
       IF city_name = "ATX" THEN ProviderRaises
       ELSE IF city_name = "MIA" THEN Returns(50, 50)
       ELSE IF city_name = "PAO" THEN Returns(37400, -122100)
       ELSE IF city_name = "PIT" THEN Returns(40400, -80000)
       ELSE Returns(38900, -77000)]
CityAnswers == { AllDegenerate, AllRaise, PaoFirst }

\* the polylines converted: at most MaxPolyline points {'x': x, 'y': y, 'z': z},
\* a run of one point followed by a run of another
Points == { [x |-> xy[1], y |-> xy[2], z |-> z] : xy \in XY, z \in Zs }
Polylines ==
    { TwoRuns(a, b, n, k) : a \in Points, b \in Points, n \in 0..MaxPolyline,
                            k \in 0..MaxPolyline }

\* no downloader is at work
NoDownload ==
    /\ downloader = "none"
    /\ all_downloads = <<>>
    /\ download_workers = 1
    /\ download_stats = [downloaded |-> 0, failed |-> 0, skipped |-> 0]
    /\ thread = <<>>
\* no HD map generator is at work
NoHD ==
    /\ map_files = <<>>
    /\ hd_pc = [at |-> "none", split |-> 0, file |-> 0]
    /\ kml_chunks = <<>>
    /\ current_chunk = 0
    /\ feature_count = 0
    /\ stats = [lane_segments |-> 0, pedestrian_crossings |-> 0, drivable_areas |-> 0,
                logs_processed |-> 0]
\* no split is searched for logs
NoFind ==
    /\ listing = [kind |-> "none", lines |-> <<>>]
    /\ map_checks = <<>>
NoTools == NoDownload /\ NoHD /\ NoFind

(***************************************************************************)
(* The classifier as a state machine: one action per public method.        *)
(***************************************************************************)
EmptyCache == <<>>

\* no generator is at work
NoSplit ==
    /\ pc = "idle"
    /\ scenario_files = <<>>
    /\ max_workers = 1
    /\ batches = <<>>
    /\ future_to_batch = <<>>
    /\ worker = <<>>
    /\ processors = <<>>
    /\ writers = <<>>
    /\ reads = {}
    /\ completed = <<>>
    /\ all_features = <<>>
    /\ total_stats = 0

\* the scenario maps of the classifier's own state machine
Scenarios ==
    { NoLaneSegments,
      [has_lane_segments |-> TRUE,
       lane_segments |-> << Lane(3000, 2000, 0), NoLeftBoundary, Lane(13001, 7000, 0) >>] }

Init ==
    /\ prov \in [XY -> ProviderOutcomes]
    /\ coordinate_cache = EmptyCache
    /\ op = [name |-> "__init__"]
    /\ ret = None
    /\ calls = <<>>
    /\ projected = [xy \in XY |-> "never"]
    /\ invoked = {}
    /\ scenario \in Scenarios
    /\ detroit_only = TRUE
    /\ global_coordinate_cache = EmptyCache
    /\ city_prov = [xy \in XY |-> AllDegenerate]
    /\ NoSplit
    /\ NoTools

ProviderPoints(evs) ==
    { evs[i].xy : i \in { j \in DOMAIN evs : evs[j].fn = "convert_city_coords_to_wgs84" } }

\* the state after the public call o handed back r
Return(o, r) ==
    /\ ret' = r.ret
    /\ calls' = r.calls
    /\ coordinate_cache' = r.cache
    /\ invoked' = invoked \cup ProviderPoints(r.calls)
    /\ projected' =
         IF o.name = "coordinates_to_gps"
         THEN [projected EXCEPT ![<<o.x, o.y>>] =
                 IF r.ret.tag = "gps" \/ @ = "gps" THEN "gps" ELSE "None"]
         ELSE projected
    /\ UNCHANGED <<prov, scenario, detroit_only, global_coordinate_cache, city_prov>>
    /\ UNCHANGED splitVars
    /\ UNCHANGED toolVars

Call_coordinates_to_gps(xy, z) ==
    /\ op' = [name |-> "coordinates_to_gps", x |-> xy[1], y |-> xy[2], z |-> z]
    /\ Return(op', coordinates_to_gps(coordinate_cache, xy[1], xy[2], z))

Call_is_detroit_by_gps_polygon(xy, z) ==
    /\ op' = [name |-> "is_detroit_by_gps_polygon", x |-> xy[1], y |-> xy[2], z |-> z]
    /\ Return(op', is_detroit_by_gps_polygon(coordinate_cache, xy[1], xy[2], z))

Call_is_detroit_by_coordinate_ranges(xy) ==
    /\ op' = [name |-> "is_detroit_by_coordinate_ranges", x |-> xy[1], y |-> xy[2]]
    /\ Return(op', is_detroit_by_coordinate_ranges(coordinate_cache, xy[1], xy[2]))

Call_is_detroit_by_city_detection(xy, z) ==
    /\ op' = [name |-> "is_detroit_by_city_detection", x |-> xy[1], y |-> xy[2], z |-> z]
    /\ Return(op', is_detroit_by_city_detection(coordinate_cache, xy[1], xy[2], z))

Call_is_detroit_comprehensive(xy, z, method) ==
    /\ op' = [name |-> "is_detroit_comprehensive", x |-> xy[1], y |-> xy[2], z |-> z,
              method |-> method]
    /\ Return(op', is_detroit_comprehensive(coordinate_cache, xy[1], xy[2], z, method))

Call_get_detection_info(xy, z) ==
    /\ op' = [name |-> "get_detection_info", x |-> xy[1], y |-> xy[2], z |-> z]
    /\ Return(op', get_detection_info(coordinate_cache, xy[1], xy[2], z))

Call_analyze_scenario_location(map_data) ==
    /\ op' = [name |-> "analyze_scenario_location", map_data |-> map_data]
    /\ Return(op', analyze_scenario_location(coordinate_cache, map_data))

Next ==
    \/ \E xy \in XY, z \in Zs : Call_coordinates_to_gps(xy, z)
    \/ \E xy \in XY, z \in Zs : Call_is_detroit_by_gps_polygon(xy, z)
    \/ \E xy \in XY : Call_is_detroit_by_coordinate_ranges(xy)
    \/ \E xy \in XY, z \in Zs : Call_is_detroit_by_city_detection(xy, z)
    \/ \E xy \in XY, z \in Zs, method \in Methods :
          Call_is_detroit_comprehensive(xy, z, method)
    \/ \E xy \in XY, z \in Zs : Call_get_detection_info(xy, z)
    \/ Call_analyze_scenario_location(scenario)

Spec == Init /\ [][Next]_vars

\* analyze_scenario_location applied to the map of one scenario, by a
\* classifier that also projects points before and after
InitColl ==
    /\ prov \in [XY -> ProviderOutcomes]
    /\ coordinate_cache = EmptyCache
    /\ op = [name |-> "__init__"]
    /\ ret = None
    /\ calls = <<>>
    /\ projected = [xy \in XY |-> "never"]
    /\ invoked = {}
    /\ scenario \in MapDatas
    /\ detroit_only = TRUE
    /\ global_coordinate_cache = EmptyCache
    /\ city_prov = [xy \in XY |-> AllDegenerate]
    /\ NoSplit
    /\ NoTools

NextColl ==
    \/ Call_analyze_scenario_location(scenario)
    \/ \E xy \in XY, z \in Zs : Call_coordinates_to_gps(xy, z)

SpecColl == InitColl /\ [][NextColl]_vars

(***************************************************************************)
(* The processor as a state machine: a processor of either mode converts   *)
(* points and polylines; in detroit_only mode its classifier also analyses *)
(* the scenario's map, as process_scenario_batch does before conversion.   *)
(***************************************************************************)
\* the provider's answers for city DTW: inside the ring, degenerate, raising
DtwAnswers == { Returns(42300, -83000), Returns(50, 50), ProviderRaises }

InitProc ==
    /\ prov \in [XY -> DtwAnswers]
    /\ city_prov \in { [xy \in XY |-> answers] : answers \in CityAnswers }
    /\ detroit_only \in BOOLEAN
    /\ global_coordinate_cache = EmptyCache
    /\ coordinate_cache = EmptyCache
    /\ op = [name |-> "__init__"]
    /\ ret = None
    /\ calls = <<>>
    /\ projected = [xy \in XY |-> "never"]
    /\ invoked = {}
    /\ scenario = [has_lane_segments |-> TRUE,
                   lane_segments |-> << Lane(3000, 2000, 0), Lane(13001, 7000, 0) >>]
    /\ NoSplit
    /\ NoTools

\* the state after the processor's call o handed back r
ReturnProc(o, r) ==
    /\ ret' = r.ret
    /\ calls' = r.calls
    /\ coordinate_cache' = r.cache
    /\ global_coordinate_cache' = r.global_cache
    /\ invoked' = invoked \cup ProviderPoints(r.calls)
    /\ UNCHANGED <<prov, scenario, detroit_only, city_prov, projected>>
    /\ UNCHANGED splitVars
    /\ UNCHANGED toolVars

Call_get_gps_from_coords(xy, z) ==
    /\ op' = [name |-> "get_gps_from_coords", x |-> xy[1], y |-> xy[2], z |-> z]
    /\ ReturnProc(op', get_gps_from_coords(global_coordinate_cache, coordinate_cache,
                                          detroit_only, xy[1], xy[2], z))

Call_convert_polyline_to_gps(polyline) ==
    /\ op' = [name |-> "convert_polyline_to_gps", polyline |-> polyline]
    /\ ReturnProc(op', convert_polyline_to_gps(global_coordinate_cache, coordinate_cache,
                                              detroit_only, polyline))

\* self.detroit_geofence.coordinates_to_gps(x, y, z), detroit_only mode
Call_geofence_coordinates_to_gps(xy, z) ==
    /\ detroit_only
    /\ Call_coordinates_to_gps(xy, z)

\* self.detroit_geofence.analyze_scenario_location(map_data), detroit_only mode
Call_geofence_analyze_scenario_location ==
    /\ detroit_only
    /\ Call_analyze_scenario_location(scenario)

NextProc ==
    \/ \E xy \in XY, z \in Zs : Call_get_gps_from_coords(xy, z)
    \/ \E polyline \in Polylines : Call_convert_polyline_to_gps(polyline)
    \/ \E xy \in XY, z \in Zs : Call_geofence_coordinates_to_gps(xy, z)
    \/ Call_geofence_analyze_scenario_location

SpecProc == InitProc /\ [][NextProc]_vars

(***************************************************************************)
(* create_split_kml as a state machine: the generator cuts the scenario    *)
(* files into batches and submits them; up to max_workers calls of         *)
(* process_scenario_batch_worker run at a time, taken in submission order, *)
(* each stepping through the scenarios of its batch; the generator merges  *)
(* the results in the order of completion.                                 *)
(***************************************************************************)
\* the map file of a scenario: one lane whose left boundary has two points at
\* one (x, y); the scenarios alternate between the two planar points
BoundaryLane(xy) ==
    [kind |-> "points", first_point |-> <<xy[1], xy[2], 0>>,
     left_lane_boundary |-> << [x |-> xy[1], y |-> xy[2], z |-> 0],
                               [x |-> xy[1], y |-> xy[2], z |-> 7] >>]
\* a lane without left boundary, its right boundary having two points at (x, y)
RightLane(xy) ==
    [kind |-> "right",
     right_lane_boundary |-> << [x |-> xy[1], y |-> xy[2], z |-> 0],
                                [x |-> xy[1], y |-> xy[2], z |-> 7] >>]
\* every third scenario has a right boundary only, and gives no sample
MapOfFile(scenario_id) ==
    [has_lane_segments |-> TRUE,
     lane_segments |-> << IF scenario_id % 3 = 0 THEN RightLane(<<3000, 2000>>)
                          ELSE BoundaryLane(IF scenario_id % 2 = 1 THEN <<3000, 2000>>
                                            ELSE <<13001, 7000>>) >>]

\* OptimizedKMLProcessor.process_scenario_batch on a processor just made: the
\* loop over scenario_batch, from the i-th scenario on
RECURSIVE scenario_loop(_, _, _, _)
scenario_loop(scenario_batch, i, only, acc) ==
    IF i > Len(scenario_batch) THEN acc
    ELSE scenario_loop(scenario_batch, i + 1, only,
           LET r == process_scenario(acc.global_cache, acc.cache, only,
                                     MapOfFile(scenario_batch[i]), scenario_batch[i])
           IN  [features |-> acc.features \o r.features,
                global_cache |-> r.global_cache,
                cache |-> r.cache,
                scenarios_processed |-> acc.scenarios_processed + r.scenarios_processed])
process_scenario_batch(only, scenario_batch) ==
    scenario_loop(scenario_batch, 1, only,
                  [features |-> <<>>, global_cache |-> EmptyCache, cache |-> EmptyCache,
                   scenarios_processed |-> 0])

\* max_workers of the generator: one process, or two side by side
WorkerCounts == { 1, 2 }

InitSplit ==
    /\ prov = (<<3000, 2000>> :> Returns(42300, -83000))
                @@ (<<13001, 7000>> :> Returns(42700, -84000))
    /\ city_prov = [xy \in XY |-> AllDegenerate]
    /\ detroit_only \in BOOLEAN
    /\ global_coordinate_cache = EmptyCache
    /\ coordinate_cache = EmptyCache
    /\ op = [name |-> "create_split_kml"]
    /\ ret = None
    /\ calls = <<>>
    /\ projected = [xy \in XY |-> "never"]
    /\ invoked = {}
    /\ scenario = NoLaneSegments
    /\ pc = "start"
    /\ scenario_files \in { [i \in 1..n |-> i] : n \in 0..MaxFiles }
    /\ max_workers \in { workers \in WorkerCounts :
                           workers = 1 \/ Len(scenario_files) <= MaxSideBySide }
    /\ batches = <<>>
    /\ future_to_batch = <<>>
    /\ worker = <<>>
    /\ processors = <<>>
    /\ writers = <<>>
    /\ reads = {}
    /\ completed = <<>>
    /\ all_features = <<>>
    /\ total_stats = 0
    /\ NoTools

classifierVars_but_op ==
    <<prov, coordinate_cache, calls, projected, invoked, scenario, detroit_only,
      global_coordinate_cache, city_prov>>
classifierVars ==
    <<prov, coordinate_cache, op, calls, projected, invoked, scenario, detroit_only,
      global_coordinate_cache, city_prov>>

\* create_split_kml up to the submission of every batch
Create_split_kml_submit ==
    /\ pc = "start"
    /\ IF scenario_files = <<>>
       THEN /\ pc' = "returned"
            /\ UNCHANGED <<batches, future_to_batch, worker>>
       ELSE /\ pc' = "as_completed"
            /\ batches' = create_batches(scenario_files, max_workers)
            /\ future_to_batch' = batches'
            /\ worker' = [future \in DOMAIN batches' |->
                            [state |-> "pending", done |-> 0, features |-> <<>>,
                             scenarios_processed |-> 0,
                             stats |-> [lane_segments |-> 0, pedestrian_crossings |-> 0,
                                        drivable_areas |-> 0]]]
    /\ UNCHANGED <<scenario_files, max_workers, processors, writers, reads, completed,
                   all_features, total_stats, ret>>
    /\ UNCHANGED classifierVars
    /\ UNCHANGED toolVars

Running == { future \in DOMAIN worker : worker[future].state = "running" }

\* variant: one processor, made once, serves every batch
new_processorAs(future) == 1
\* processor = OptimizedKMLProcessor(...): the object made by the call for a batch
new_processor(future) == future

\* a pool process takes the next batch and constructs its processor
Worker_start(future) ==
    /\ pc = "as_completed"
    /\ worker[future].state = "pending"
    /\ \A earlier \in 1..(future - 1) : worker[earlier].state # "pending"
    /\ Cardinality(Running) < max_workers
    /\ worker' = [worker EXCEPT ![future].state = "running"]
    /\ IF new_processor(future) \in DOMAIN processors
       THEN UNCHANGED <<processors, writers>>
       ELSE /\ processors' = processors @@
                (new_processor(future) :>
                   [global_coordinate_cache |-> EmptyCache,
                    coordinate_cache |-> EmptyCache])
            /\ writers' = writers @@
                (new_processor(future) :>
                   [global_coordinate_cache |-> <<>>, coordinate_cache |-> <<>>])
    /\ UNCHANGED <<pc, scenario_files, max_workers, batches, future_to_batch, reads,
                   completed, all_features, total_stats, ret>>
    /\ UNCHANGED classifierVars
    /\ UNCHANGED toolVars

\* the points whose entry the call record shows served from the cache
GlobalHits(evs) ==
    { evs[i].xy : i \in { j \in DOMAIN evs :
        /\ evs[j].fn = "get_gps_from_coords"
        /\ \/ j = Len(evs)
           \/ evs[j + 1].fn \notin { "coordinates_to_gps",
                                     "convert_city_coords_to_wgs84" } } }
GeofenceHits(evs) ==
    { evs[i].xy : i \in { j \in DOMAIN evs :
        /\ evs[j].fn = "coordinates_to_gps"
        /\ \/ j = Len(evs)
           \/ evs[j + 1].fn # "convert_city_coords_to_wgs84" } }

\* the batch that wrote an entry: the one on record, or the batch at work
WriterOf(written, cache_key, future) ==
    IF cache_key \in DOMAIN written THEN written[cache_key] ELSE future
Written(written, cache, future) ==
    [cache_key \in DOMAIN cache |-> WriterOf(written, cache_key, future)]

\* the state after the call for the batch of future processed one scenario on
\* the processor p and got r
Scenario_done(future, p, r) ==
    /\ worker' = [worker EXCEPT
                    ![future].done = @ + 1,
                    ![future].features = @ \o r.features,
                    ![future].stats = feature_stats(@, r.features),
                    ![future].scenarios_processed = @ + r.scenarios_processed]
    /\ processors' = [processors EXCEPT
                        ![p] = [global_coordinate_cache |-> r.global_cache,
                                coordinate_cache |-> r.cache]]
    /\ writers' = [writers EXCEPT
                     ![p] = [global_coordinate_cache |->
                               Written(@.global_coordinate_cache, r.global_cache, future),
                             coordinate_cache |->
                               Written(@.coordinate_cache, r.cache, future)]]
    /\ reads' = reads
         \cup { <<future, WriterOf(writers[p].global_coordinate_cache, cache_key, future)>> :
                  cache_key \in GlobalHits(r.calls) }
         \cup { <<future, WriterOf(writers[p].coordinate_cache, cache_key, future)>> :
                  cache_key \in GeofenceHits(r.calls) }

\* one turn of the loop of process_scenario_batch
Worker_scenario(future) ==
    /\ pc = "as_completed"
    /\ worker[future].state = "running"
    /\ worker[future].done < Len(future_to_batch[future])
    /\ Scenario_done(future, new_processor(future),
         process_scenario(processors[new_processor(future)].global_coordinate_cache,
                          processors[new_processor(future)].coordinate_cache,
                          detroit_only,
                          MapOfFile(future_to_batch[future][worker[future].done + 1]),
                          future_to_batch[future][worker[future].done + 1]))
    /\ UNCHANGED <<pc, scenario_files, max_workers, batches, future_to_batch, completed,
                   all_features, total_stats, ret>>
    /\ UNCHANGED classifierVars
    /\ UNCHANGED toolVars

\* process_scenario_batch returns and the future completes
Worker_return(future) ==
    /\ pc = "as_completed"
    /\ worker[future].state = "running"
    /\ worker[future].done = Len(future_to_batch[future])
    /\ worker' = [worker EXCEPT ![future].state = "done"]
    /\ completed' = Append(completed, future)
    /\ UNCHANGED <<pc, scenario_files, max_workers, batches, future_to_batch, processors,
                   writers, reads, all_features, total_stats, ret>>
    /\ UNCHANGED classifierVars
    /\ UNCHANGED toolVars

\* the futures that completed with an exception
Raising == { future \in DOMAIN worker : worker[future].state \in { "raised", "failed" } }

\* OptimizedKMLProcessor(...) raises in process_scenario_batch_worker, before the
\* loop over the batch (which catches what its body raises): the future
\* completes with the exception
Worker_raise(future) ==
    /\ pc = "as_completed"
    /\ worker[future].state = "running"
    /\ worker[future].done = 0
    /\ Cardinality(Raising) < MaxRaised
    /\ worker' = [worker EXCEPT ![future].state = "raised"]
    /\ completed' = Append(completed, future)
    /\ UNCHANGED <<pc, scenario_files, max_workers, batches, future_to_batch, processors,
                   writers, reads, all_features, total_stats, ret>>
    /\ UNCHANGED classifierVars
    /\ UNCHANGED toolVars

\* variant: the result of a future replaces what was merged before it
merged_batchAs(features, totals, result) ==
    [all_features |-> result.features, total_stats |-> result.scenarios_processed]
\* try: result = future.result(); all_features.extend(result['features']);
\* total_stats[key] += result['stats'][key]   except Exception: print(...)
merged_batch(features, totals, result) ==
    IF result.state = "raised"
    THEN [all_features |-> features, total_stats |-> totals]
    ELSE [all_features |-> features \o result.features,
          total_stats |-> totals + result.scenarios_processed]

\* one turn of the loop over as_completed(future_to_batch)
As_completed ==
    /\ pc = "as_completed"
    /\ completed # <<>>
    /\ completed' = Tail(completed)
    /\ all_features' =
         merged_batch(all_features, total_stats, worker[Head(completed)]).all_features
    /\ total_stats' =
         merged_batch(all_features, total_stats, worker[Head(completed)]).total_stats
    /\ worker' = [worker EXCEPT ![Head(completed)].state =
                    IF @ = "raised" THEN "failed" ELSE "merged"]
    /\ UNCHANGED <<pc, scenario_files, max_workers, batches, future_to_batch, processors,
                   writers, reads, ret>>
    /\ UNCHANGED classifierVars
    /\ UNCHANGED toolVars

\* every future was yielded: return kml if len(all_features) > 0 else None
Create_split_kml_return ==
    /\ pc = "as_completed"
    /\ \A future \in DOMAIN worker : worker[future].state \in { "merged", "failed" }
    /\ pc' = "returned"
    /\ ret' = IF Len(all_features) > 0
              THEN [tag |-> "kml", features |-> all_features]
              ELSE None
    /\ UNCHANGED <<scenario_files, max_workers, batches, future_to_batch, worker,
                   processors, writers, reads, completed, all_features, total_stats>>
    /\ UNCHANGED classifierVars
    /\ UNCHANGED toolVars

NextSplit ==
    \/ Create_split_kml_submit
    \/ \E future \in DOMAIN worker : Worker_start(future)
    \/ \E future \in DOMAIN worker : Worker_scenario(future)
    \/ \E future \in DOMAIN worker : Worker_return(future)
    \/ \E future \in DOMAIN worker : Worker_raise(future)
    \/ As_completed
    \/ Create_split_kml_return

SpecSplit == InitSplit /\ [][NextSplit]_vars

(***************************************************************************)
(* The downloaders: download_all_maps of MotionForecastingDownloader and   *)
(* download_all_detroit_data of DetroitLogDownloader hand every (split,    *)
(* id) task to a thread pool.  The threads share download_stats and add to *)
(* a counter by download_stats[key] += 1 without a lock: the subscript is  *)
(* loaded, one is added, and the sum is stored, and another thread may run *)
(* between the load and the store.                                         *)
(***************************************************************************)
Downloaders == { "MotionForecastingDownloader", "DetroitLogDownloader" }
\* how the download of a task ends: download_scenario_map skips a file that
\* exists; download_log_data only succeeds or fails
Endings(class) ==
    IF class = "MotionForecastingDownloader"
    THEN { "skipped", "downloaded", "failed" }
    ELSE { "downloaded", "failed" }
\* max_workers of the pool: one thread, or two side by side
DownloadWorkers == { 1, 2 }

InitDownload ==
    /\ prov = [xy \in XY |-> ProviderRaises]
    /\ city_prov = [xy \in XY |-> AllDegenerate]
    /\ detroit_only = FALSE
    /\ global_coordinate_cache = EmptyCache
    /\ coordinate_cache = EmptyCache
    /\ op = [name |-> "download"]
    /\ ret = None
    /\ calls = <<>>
    /\ projected = [xy \in XY |-> "never"]
    /\ invoked = {}
    /\ scenario = NoLaneSegments
    /\ NoSplit
    /\ downloader \in Downloaders
    /\ all_downloads \in SeqsUpTo(Endings(downloader), MaxDownloads)
    /\ download_workers \in DownloadWorkers
    /\ download_stats = [downloaded |-> 0, failed |-> 0, skipped |-> 0]
    /\ thread = [task \in DOMAIN all_downloads |-> [state |-> "submitted", loaded |-> 0]]
    /\ NoHD
    /\ NoFind

Downloading ==
    { task \in DOMAIN thread : thread[task].state \in { "running", "loaded" } }

\* a pool thread takes the next task and runs its download to the end
Download_worker(task) ==
    /\ thread[task].state = "submitted"
    /\ \A earlier \in 1..(task - 1) : thread[earlier].state # "submitted"
    /\ Cardinality(Downloading) < download_workers
    /\ thread' = [thread EXCEPT ![task].state = "running"]
    /\ UNCHANGED <<downloader, all_downloads, download_workers, download_stats>>
    /\ UNCHANGED <<classifierVars, ret, splitVars, hdVars, findVars>>

\* download_stats[key] += 1, first half: the counter is loaded
Stats_load(task) ==
    /\ thread[task].state = "running"
    /\ thread' = [thread EXCEPT ![task] =
                    [state |-> "loaded", loaded |-> download_stats[all_downloads[task]]]]
    /\ UNCHANGED <<downloader, all_downloads, download_workers, download_stats>>
    /\ UNCHANGED <<classifierVars, ret, splitVars, hdVars, findVars>>

\* the value stored is the value loaded, plus one
stats_sum(counters, key, loaded) == loaded + 1

\* download_stats[key] += 1, second half: the sum is stored; the call returns
Stats_store(task) ==
    /\ thread[task].state = "loaded"
    /\ download_stats' =
         [download_stats EXCEPT ![all_downloads[task]] =
            stats_sum(download_stats, all_downloads[task], thread[task].loaded)]
    /\ thread' = [thread EXCEPT ![task].state = "done"]
    /\ UNCHANGED <<downloader, all_downloads, download_workers>>
    /\ UNCHANGED <<classifierVars, ret, splitVars, hdVars, findVars>>

NextDownload ==
    \/ \E task \in DOMAIN thread : Download_worker(task)
    \/ \E task \in DOMAIN thread : Stats_load(task)
    \/ \E task \in DOMAIN thread : Stats_store(task)

SpecDownload == InitDownload /\ [][NextDownload]_vars

(***************************************************************************)
(* DetroitHDMapKMLGenerator.  A map file is described by how many of its   *)
(* elements take each path through add_lane_segments,                      *)
(* add_pedestrian_crossings and add_drivable_areas; every log directory    *)
(* holds one map file.                                                     *)
(***************************************************************************)
Splits == << "train", "val", "test" >>

\* max_features_per_chunk of create_split_kml, and the limit it stays below
max_features_per_chunk == 9500
FeatureLimit == 10000

\* a lane with both boundaries of two points or more; with the left one only;
\* with none; a lane whose data makes the loop body raise before any feature
LaneSegments(both, left, none, raises) ==
    [both |-> both, left |-> left, none |-> none, raises |-> raises]
\* a crossing with both edges; a crossing whose data makes the loop body raise
PedestrianCrossings(both, raises) == [both |-> both, raises |-> raises]
\* an area with a boundary of three points or more; with a shorter boundary
DrivableAreas(valid, short) == [valid |-> valid, short |-> short]

\* json.load raises for the file
UnreadableMap ==
    [loads |-> FALSE, lane_segments |-> LaneSegments(0, 0, 0, 0),
     pedestrian_crossings |-> PedestrianCrossings(0, 0),
     drivable_areas |-> DrivableAreas(0, 0)]
\* a map of 501 features
SmallMap ==
    [loads |-> TRUE, lane_segments |-> LaneSegments(248, 1, 1, 1),
     pedestrian_crossings |-> PedestrianCrossings(1, 1),
     drivable_areas |-> DrivableAreas(2, 1)]
\* a map of 9499 features
LargeMap ==
    [loads |-> TRUE, lane_segments |-> LaneSegments(4749, 1, 0, 0),
     pedestrian_crossings |-> PedestrianCrossings(0, 0),
     drivable_areas |-> DrivableAreas(0, 0)]
MapFiles == { UnreadableMap, SmallMap, LargeMap }

\* features_added of add_lane_segments and what it adds to stats['lane_segments']
add_lane_segments(lane_segments) ==
    [features_added |-> 2 * lane_segments.both + lane_segments.left,
     counted |-> lane_segments.both + lane_segments.left + lane_segments.none]
add_pedestrian_crossings(pedestrian_crossings) ==
    [features_added |-> 2 * pedestrian_crossings.both,
     counted |-> pedestrian_crossings.both]
add_drivable_areas(drivable_areas) ==
    [features_added |-> drivable_areas.valid, counted |-> drivable_areas.valid]

\* process_map_file: features_added and the stats after the call
process_map_file(counters, map_file) ==
    IF ~map_file.loads
    THEN [features_added |-> 0, stats |-> counters]
    ELSE [features_added |->
            add_lane_segments(map_file.lane_segments).features_added
            + add_pedestrian_crossings(map_file.pedestrian_crossings).features_added
            + add_drivable_areas(map_file.drivable_areas).features_added,
          stats |->
            [lane_segments |-> counters.lane_segments
                                 + add_lane_segments(map_file.lane_segments).counted,
             pedestrian_crossings |->
                counters.pedestrian_crossings
                  + add_pedestrian_crossings(map_file.pedestrian_crossings).counted,
             drivable_areas |-> counters.drivable_areas
                                  + add_drivable_areas(map_file.drivable_areas).counted,
             logs_processed |-> counters.logs_processed + 1]]

ZeroStats ==
    [lane_segments |-> 0, pedestrian_crossings |-> 0, drivable_areas |-> 0,
     logs_processed |-> 0]

\* the stats after process_map_file was called for every file of a list
RECURSIVE process_map_files(_, _)
process_map_files(counters, files) ==
    IF files = <<>> THEN counters
    ELSE process_map_files(process_map_file(counters, Head(files)).stats, Tail(files))

\* create_summary_kml: the files of the first two logs of each split, five at most
SummaryLogs == 2
SummaryFiles == 5
summary_samples(files) ==
    Take(Take(files[1], SummaryLogs) \o Take(files[2], SummaryLogs)
           \o Take(files[3], SummaryLogs), SummaryFiles)

\* the classifier and the motion forecasting generator are not at work
Idle ==
    /\ prov = [xy \in XY |-> ProviderRaises]
    /\ city_prov = [xy \in XY |-> AllDegenerate]
    /\ detroit_only = FALSE
    /\ global_coordinate_cache = EmptyCache
    /\ coordinate_cache = EmptyCache
    /\ calls = <<>>
    /\ projected = [xy \in XY |-> "never"]
    /\ invoked = {}
    /\ scenario = NoLaneSegments
    /\ NoSplit

InitHD ==
    /\ Idle
    /\ op = [name |-> "generate_all_kml_files"]
    /\ ret = None
    /\ NoDownload
    /\ NoFind
    /\ map_files \in { files \in [DOMAIN Splits -> SeqsUpTo(MapFiles, MaxMapFiles)] :
                          Len(files[1]) + Len(files[2]) + Len(files[3]) <= MaxMapFiles }
    /\ hd_pc = [at |-> "create_split_kml", split |-> 1, file |-> 0]
    /\ kml_chunks = [split \in DOMAIN Splits |-> <<>>]
    /\ current_chunk = 0
    /\ feature_count = 0
    /\ stats = ZeroStats

\* create_split_kml up to its loop: the first chunk is created
HD_create_split_kml ==
    /\ hd_pc.at = "create_split_kml"
    /\ kml_chunks' = [kml_chunks EXCEPT ![hd_pc.split] = <<0>>]
    /\ current_chunk' = 0
    /\ feature_count' = 0
    /\ hd_pc' = [hd_pc EXCEPT !.at = "map_file", !.file = 1]
    /\ UNCHANGED <<map_files, stats>>
    /\ UNCHANGED <<classifierVars, ret, splitVars, downloadVars, findVars>>

\* if feature_count >= max_features_per_chunk: a new chunk is appended
chunk_for(chunks, count) ==
    IF count >= max_features_per_chunk
    THEN [kml_chunks |-> Append(chunks, 0), feature_count |-> 0]
    ELSE [kml_chunks |-> chunks, feature_count |-> count]

\* one turn of the loop of create_split_kml over the map files
HD_map_file ==
    /\ hd_pc.at = "map_file"
    /\ hd_pc.file <= Len(map_files[hd_pc.split])
    /\ LET chunk == chunk_for(kml_chunks[hd_pc.split], feature_count)
           processed == process_map_file(stats, map_files[hd_pc.split][hd_pc.file])
       IN  /\ current_chunk' = Len(chunk.kml_chunks) - 1
           /\ kml_chunks' =
                [kml_chunks EXCEPT ![hd_pc.split] =
                   [chunk.kml_chunks EXCEPT ![Len(chunk.kml_chunks)] =
                      @ + processed.features_added]]
           /\ feature_count' = chunk.feature_count + processed.features_added
           /\ stats' = processed.stats
    /\ hd_pc' = [hd_pc EXCEPT !.file = @ + 1]
    /\ UNCHANGED map_files
    /\ UNCHANGED <<classifierVars, ret, splitVars, downloadVars, findVars>>

\* create_split_kml returns its chunks, generate_all_kml_files saves them and
\* goes on to the next split, or to the summary
HD_split_return ==
    /\ hd_pc.at = "map_file"
    /\ hd_pc.file > Len(map_files[hd_pc.split])
    /\ hd_pc' = IF hd_pc.split < Len(Splits)
                THEN [at |-> "create_split_kml", split |-> hd_pc.split + 1, file |-> 0]
                ELSE [at |-> "create_summary_kml", split |-> 0, file |-> 0]
    /\ UNCHANGED <<map_files, kml_chunks, current_chunk, feature_count, stats>>
    /\ UNCHANGED <<classifierVars, ret, splitVars, downloadVars, findVars>>

\* create_summary_kml, and generate_all_kml_files returns
HD_create_summary_kml ==
    /\ hd_pc.at = "create_summary_kml"
    /\ stats' = process_map_files(stats, summary_samples(map_files))
    /\ hd_pc' = [hd_pc EXCEPT !.at = "returned"]
    /\ UNCHANGED <<map_files, kml_chunks, current_chunk, feature_count>>
    /\ UNCHANGED <<classifierVars, ret, splitVars, downloadVars, findVars>>

NextHD ==
    \/ HD_create_split_kml
    \/ HD_map_file
    \/ HD_split_return
    \/ HD_create_summary_kml

SpecHD == InitHD /\ [][NextHD]_vars

(***************************************************************************)
(* DetroitLogDownloader.find_detroit_logs_in_split.  A line of the listing *)
(* is a directory line with a log id, a directory line whose name is no    *)
(* log id, or another line; the log id of a line is its number.            *)
(***************************************************************************)
ListingLines == { "DIR log_id/", "DIR name/", "file" }
\* subprocess.run of the listing: it returns with code 0 and lines, returns
\* another code, exceeds its timeout, or raises
Listings ==
    { [kind |-> "returns", lines |-> lines] : lines \in SeqsUpTo(ListingLines, MaxLines) }
      \cup { [kind |-> kind, lines |-> <<>>] : kind \in { "nonzero", "timeout", "raises" } }
\* subprocess.run of the map check of a log: code 0 with output, code 0 with
\* blank output, another code, timeout, or an exception
MapChecks == { "found", "blank", "nonzero", "timeout", "raises" }

Logs(logs) == [tag |-> "logs", logs |-> logs]

\* re.search(r'DIR\s+([a-f0-9-]+)/', line) on the lines holding 'DIR'
RECURSIVE log_ids_from(_, _)
log_ids_from(lines, i) ==
    IF i > Len(lines) THEN <<>>
    ELSE (IF lines[i] = "DIR log_id/" THEN <<i>> ELSE <<>>) \o log_ids_from(lines, i + 1)

\* variant: the logs found before the failing check are returned
find_exceptAs(detroit_logs) == Logs(detroit_logs)
\* except subprocess.TimeoutExpired / except Exception: return []
find_except(detroit_logs) == Logs(<<>>)

\* for i, log_id in enumerate(log_ids)
RECURSIVE check_loop(_, _, _, _)
check_loop(log_ids, i, checks, detroit_logs) ==
    IF i > Len(log_ids) THEN Logs(detroit_logs)
    ELSE IF checks[log_ids[i]] \in { "timeout", "raises" } THEN find_except(detroit_logs)
    ELSE check_loop(log_ids, i + 1, checks,
                    IF checks[log_ids[i]] = "found"
                    THEN Append(detroit_logs, log_ids[i]) ELSE detroit_logs)

find_detroit_logs_in_split(ls, checks) ==
    IF ls.kind \in { "timeout", "raises" } THEN find_except(<<>>)
    ELSE IF ls.kind = "nonzero" THEN Logs(<<>>)
    ELSE check_loop(log_ids_from(ls.lines, 1), 1, checks, <<>>)

InitFind ==
    /\ Idle
    /\ op = [name |-> "__init__"]
    /\ ret = None
    /\ NoDownload
    /\ NoHD
    /\ listing \in Listings
    /\ map_checks \in [1..MaxLines -> MapChecks]

Call_find_detroit_logs_in_split ==
    /\ op' = [name |-> "find_detroit_logs_in_split"]
    /\ ret' = find_detroit_logs_in_split(listing, map_checks)
    /\ UNCHANGED <<classifierVars_but_op, splitVars, downloadVars, hdVars, findVars>>

NextFind == Call_find_detroit_logs_in_split

SpecFind == InitFind /\ [][NextFind]_vars

(***************************************************************************)
(* Properties.                                                             *)
(***************************************************************************)
PointOps ==
    { "coordinates_to_gps", "is_detroit_by_gps_polygon", "is_detroit_by_coordinate_ranges",
      "is_detroit_by_city_detection", "is_detroit_comprehensive", "get_detection_info" }
IsPointOp(o) == o.name \in PointOps
Pt(o) == <<o.x, o.y>>
IsOp(o, name) == o.name = name
IsAuto(o) == o.name = "is_detroit_comprehensive" /\ o.method = "auto"

\* the provider returned, and what it returned passes the validity check
ProviderUsable(xy) == ~prov[xy].raises /\ IsUsable(prov[xy].lat, prov[xy].lon)

\* how often the call record enters fn for the point xy
Entered(evs, fn, xy) ==
    Cardinality({ i \in DOMAIN evs : evs[i].fn = fn /\ evs[i].xy = xy })
EnteredAny(evs, fn) == \E i \in DOMAIN evs : evs[i].fn = fn

\* C1: coordinates_to_gps returns a value only if the provider's result for
\* the point has |lat| > 0.1 and |lon| > 0.1; for a degenerate provider result
\* it returns None, on every call.
C1_ValidityFilter ==
    (IsOp(op, "coordinates_to_gps") /\ ret.tag = "gps") => ProviderUsable(Pt(op))

\* C2: two calls of coordinates_to_gps in a row with the same x, y, z return
\* identical results.
C2_ProjectIdempotent ==
    [][(IsOp(op, "coordinates_to_gps") /\ op' = op) => ret' = ret]_vars

\* C3 as stated: once coordinates_to_gps has been called for a point, a later
\* call for that point does not invoke the provider.
C3_NoSecondProviderCall ==
    [][(IsOp(op', "coordinates_to_gps") /\ projected[Pt(op')] # "never")
          => Pt(op') \notin ProviderPoints(calls')]_vars

\* C3 amended: once coordinates_to_gps has been called for a point for which
\* the provider does not raise, a later call for that point does not invoke
\* the provider.
C3_NoSecondProviderCallUnlessRaised ==
    [][(/\ IsOp(op', "coordinates_to_gps")
        /\ projected[Pt(op')] # "never"
        /\ ~prov[Pt(op')].raises)
          => Pt(op') \notin ProviderPoints(calls')]_vars

\* a second call for a point the provider returned for, served without the provider
C3_Witness ==
    /\ IsOp(op, "coordinates_to_gps")
    /\ ~prov[Pt(op)].raises
    /\ Pt(op) \in invoked
    /\ projected[Pt(op)] # "never"
    /\ ProviderPoints(calls) = {}

\* C4: a call of coordinates_to_gps that returns None leaves the cache
\* unchanged, and every cache entry has |lat| > 0.1 and |lon| > 0.1.
C4_CacheOnlyOnSuccess ==
    [][/\ (IsOp(op', "coordinates_to_gps") /\ IsNone(ret'))
            => coordinate_cache' = coordinate_cache
       /\ \A k \in DOMAIN coordinate_cache' :
            IsUsable(coordinate_cache'[k][1], coordinate_cache'[k][2])]_vars

\* C5: no public operation lets an exception escape; when the provider raises
\* for the point, coordinates_to_gps returns None and the predicates that
\* depend on the projection return False.
C5_ExceptionSafe ==
    /\ ~IsRaised(ret)
    /\ (IsPointOp(op) /\ prov[Pt(op)].raises) =>
         /\ IsOp(op, "coordinates_to_gps") => ret = None
         /\ IsOp(op, "is_detroit_by_gps_polygon") => ret = Bool(FALSE)
         /\ IsOp(op, "is_detroit_by_city_detection") => ret = Bool(FALSE)
         /\ (IsOp(op, "is_detroit_comprehensive") /\ op.method # "coordinate_ranges")
               => ret = Bool(FALSE)
         /\ IsOp(op, "get_detection_info") =>
               /\ ret.gps_conversion = None
               /\ ~ret.city_detection
               /\ ~ret.gps_polygon
               /\ ~ret.comprehensive_result
    /\ (IsOp(op, "analyze_scenario_location") /\ \A xy \in XY : prov[xy].raises) =>
         /\ ret.tag = "analysis"
         /\ ~ret.is_detroit

\* the detection record of a point the provider raises for
C5_Witness ==
    /\ IsOp(op, "get_detection_info")
    /\ prov[Pt(op)].raises
    /\ ret.tag = "info"
    /\ Entered(calls, "convert_city_coords_to_wgs84", Pt(op)) >= 2

\* C6: is_detroit_comprehensive with method auto: where the broad check is
\* false the result is False and the polygon check is not entered; where it is
\* true the result is the polygon check's.
C6_BroadThenPolygon ==
    IsAuto(op) =>
      LET broad == is_detroit_by_city_detection(coordinate_cache, op.x, op.y, op.z).ret
          polygon == is_detroit_by_gps_polygon(coordinate_cache, op.x, op.y, op.z).ret
      IN  /\ ~broad.b =>
               /\ ret = Bool(FALSE)
               /\ ~EnteredAny(calls, "is_detroit_by_gps_polygon")
               /\ ~EnteredAny(calls, "coordinates_to_gps")
               /\ ~EnteredAny(calls, "detroit_polygon.contains")
          /\ broad.b =>
               /\ ret = polygon
               /\ Entered(calls, "is_detroit_by_gps_polygon", Pt(op)) = 1
          /\ calls[2].fn = "is_detroit_by_city_detection"

\* a usable projection outside the broad rectangle: False, the polygon untouched
C6_Witness ==
    /\ IsAuto(op)
    /\ ProviderUsable(Pt(op))
    /\ ~is_detroit_by_city_detection(coordinate_cache, op.x, op.y, op.z).ret.b
    /\ ret = Bool(FALSE)
    /\ ~EnteredAny(calls, "is_detroit_by_gps_polygon")

\* C7: for a point whose projection is in the cache, is_detroit_comprehensive
\* with method auto and is_detroit_by_city_detection do not invoke the
\* provider; the provider is invoked at most once per (x, y).
C7_NoProviderCallForCachedPoint ==
    [][((IsAuto(op') \/ IsOp(op', "is_detroit_by_city_detection"))
          /\ Pt(op') \in DOMAIN coordinate_cache)
         => /\ Pt(op') \notin ProviderPoints(calls')
            /\ \A xy \in XY :
                 Entered(calls', "convert_city_coords_to_wgs84", xy)
                   + (IF xy \in invoked THEN 1 ELSE 0) <= 1]_vars

\* the lanes analyze_scenario_location is to sample: of the first SampleLimit
\* lanes, those with a non-empty left boundary, in the order of the map
HasPoints(lane_data) == lane_data.kind = "points"
Examined(map_data) ==
    IF map_data.has_lane_segments
    THEN Take(map_data.lane_segments, SampleLimit)
    ELSE <<>>
ToSample(map_data) == SelectSeq(Examined(map_data), HasPoints)

\* the verdict of is_detroit_comprehensive, method auto, on the lane's first point
ClassifiesTrue(lane_data) ==
    is_detroit_comprehensive(coordinate_cache, lane_data.first_point[1],
        lane_data.first_point[2], lane_data.first_point[3], "auto").ret.b
TrueOf(lanes) == Cardinality({ i \in DOMAIN lanes : ClassifiesTrue(lanes[i]) })

\* the entries of the call record for is_detroit_comprehensive
IsClassifyEv(e) == e.fn = "is_detroit_comprehensive"
Classified(evs) == SelectSeq(evs, IsClassifyEv)

\* C8: the confidence is (sampled points classified true) / (points sampled)
\* and is_detroit holds exactly when it exceeds 0.5: 6 of 10 gives 0.6 and
\* True, 5 of 10 gives False.
C8_Confidence ==
    (IsOp(op, "analyze_scenario_location") /\ ToSample(op.map_data) # <<>>) =>
      LET n == Len(ToSample(op.map_data))
          t == TrueOf(ToSample(op.map_data))
      IN  /\ ret.tag = "analysis"
          /\ ret.detroit_confidence.tag = "float"
          /\ ret.detroit_confidence.n * n = t * ret.detroit_confidence.d
          /\ ret.is_detroit <=> (2 * t > n)
          /\ (n = 10 /\ t = 6) => (ret.detroit_confidence = Float(3, 5) /\ ret.is_detroit)
          /\ (n = 10 /\ t = 5) => ~ret.is_detroit

\* 5 of 10 sampled points classified true: confidence 0.5, not Detroit
C8_Witness ==
    /\ IsOp(op, "analyze_scenario_location")
    /\ Len(ToSample(op.map_data)) = 10
    /\ TrueOf(ToSample(op.map_data)) = 5
    /\ ret.detroit_confidence = Float(1, 2)
    /\ ~ret.is_detroit

\* C9: with no point sampled (no key 'lane_segments', no lane, or no examined
\* lane with a non-empty left boundary) the result is is_detroit False and
\* confidence 0.0, and nothing is raised.
C9_EmptySample ==
    (/\ IsOp(op, "analyze_scenario_location")
     /\ \/ ~op.map_data.has_lane_segments
        \/ op.map_data.lane_segments = <<>>
        \/ \A i \in DOMAIN Examined(op.map_data) : ~HasPoints(Examined(op.map_data)[i]))
      => /\ ret.tag = "analysis"
         /\ ~ret.is_detroit
         /\ ret.detroit_confidence = Float(0, 1)
         /\ ret.total_samples = 0

\* ten lanes without a left boundary and an eleventh with one: nothing sampled
C9_Witness ==
    /\ IsOp(op, "analyze_scenario_location")
    /\ Len(op.map_data.lane_segments) > SampleLimit
    /\ \E i \in DOMAIN op.map_data.lane_segments : HasPoints(op.map_data.lane_segments[i])
    /\ ToSample(op.map_data) = <<>>
    /\ ret.tag = "analysis"
    /\ ret.total_samples = 0

\* C10: at most SampleLimit points are classified, each by
\* is_detroit_comprehensive with method auto, in the order of the map, and
\* their number is the denominator of the confidence.
C10_Sampling ==
    IsOp(op, "analyze_scenario_location") =>
      LET sample == ToSample(op.map_data)
          classified == Classified(calls)
      IN  /\ ret.tag = "analysis"
          /\ Len(classified) <= SampleLimit
          /\ Len(classified) = Len(sample)
          /\ \A i \in DOMAIN classified :
               /\ classified[i].method = "auto"
               /\ classified[i].xy =
                    <<sample[i].first_point[1], sample[i].first_point[2]>>
          /\ ret.total_samples = Len(classified)
          /\ ret.sample_coordinates =
               [i \in 1..Len(Take(sample, ShownSamples)) |-> sample[i].first_point]
          /\ ret.total_samples > 0 =>
               ret.detroit_confidence.n * ret.total_samples
                 = ret.detroit_samples * ret.detroit_confidence.d

\* a map of eleven lanes with boundaries, of two different points: ten classified
C10_Witness ==
    /\ IsOp(op, "analyze_scenario_location")
    /\ Len(op.map_data.lane_segments) = 11
    /\ Len(ToSample(op.map_data)) = 10
    /\ Len(Classified(calls)) = 10
    /\ Classified(calls)[1].xy # Classified(calls)[10].xy
    /\ ret.total_samples = 10

\* the ring's corners, read off the vertex list of __init__
RingWest == -83287
RingEast == -82910
RingSouth == 42255
RingNorth == 42450
StrictlyInsideRing(lon, lat) ==
    RingWest < lon /\ lon < RingEast /\ RingSouth < lat /\ lat < RingNorth
OutsideRingBox(lon, lat) ==
    lon < RingWest \/ lon > RingEast \/ lat < RingSouth \/ lat > RingNorth

\* C11: is_detroit_by_gps_polygon returns False whenever coordinates_to_gps
\* yields None for the point in the state of the call; otherwise it returns
\* whether the projected point, taken as (lon, lat), lies in the ring: True for
\* a projection strictly inside the ring, False for one outside the ring's
\* bounding box.
C11_PolygonContainment ==
    [][IsOp(op', "is_detroit_by_gps_polygon") =>
         LET project == coordinates_to_gps(coordinate_cache, op'.x, op'.y, op'.z).ret
         IN  /\ ret'.tag = "bool"
             /\ IsNone(project) => ~ret'.b
             /\ (project.tag = "gps" /\ StrictlyInsideRing(project.lon, project.lat))
                   => ret'.b
             /\ (project.tag = "gps" /\ OutsideRingBox(project.lon, project.lat))
                   => ~ret'.b]_vars

\* the polygon check of a point whose projection lies strictly inside the ring
C11_Witness ==
    /\ IsOp(op, "is_detroit_by_gps_polygon")
    /\ ProviderUsable(Pt(op))
    /\ StrictlyInsideRing(prov[Pt(op)].lon, prov[Pt(op)].lat)
    /\ EnteredAny(calls, "detroit_polygon.contains")
    /\ ret = Bool(TRUE)

\* C12: is_detroit_by_city_detection returns False whenever the provider raises
\* for the point or returns a degenerate result; otherwise it returns True
\* exactly when 41.5 <= lat <= 43.0 and -84.5 <= lon <= -82.0, bounds included.
C12_BroadBounds ==
    IsOp(op, "is_detroit_by_city_detection") =>
      LET lat == prov[Pt(op)].lat
          lon == prov[Pt(op)].lon
      IN  /\ ret.tag = "bool"
          /\ ~ProviderUsable(Pt(op)) => ~ret.b
          /\ ProviderUsable(Pt(op)) =>
                (ret.b <=> (/\ 41500 <= lat /\ lat <= 43000
                            /\ -84500 <= lon /\ lon <= -82000))

\* the broad check of a point projected onto the corner of the box
C12_Witness ==
    /\ IsOp(op, "is_detroit_by_city_detection")
    /\ prov[Pt(op)] = Returns(41500, -84500)
    /\ ret = Bool(TRUE)

\* C13: is_detroit_by_coordinate_ranges returns exactly
\* 3000 <= x <= 13000 and 2000 <= y <= 7000, bounds included; it does not
\* invoke the provider, does not enter coordinates_to_gps (the only reader and
\* writer of the cache) and leaves the cache as it was, whatever the provider
\* does for the point.
C13_RangeIndependent ==
    [][IsOp(op', "is_detroit_by_coordinate_ranges") =>
         /\ ret' = Bool(/\ 3000 <= op'.x /\ op'.x <= 13000
                        /\ 2000 <= op'.y /\ op'.y <= 7000)
         /\ calls' = <<Ev("is_detroit_by_coordinate_ranges", Pt(op'), "")>>
         /\ ProviderPoints(calls') = {}
         /\ invoked' = invoked
         /\ coordinate_cache' = coordinate_cache]_vars

\* the range check of the corner point on a classifier whose provider raises
\* for every point
C13_Witness ==
    /\ IsOp(op, "is_detroit_by_coordinate_ranges")
    /\ \A xy \in XY : prov[xy].raises
    /\ Pt(op) = <<3000, 2000>>
    /\ ret = Bool(TRUE)

Predicates ==
    { "is_detroit_by_gps_polygon", "is_detroit_by_coordinate_ranges",
      "is_detroit_by_city_detection" }
\* the predicate a method other than auto names
Named(method) ==
    IF method = "gps_polygon" THEN "is_detroit_by_gps_polygon"
    ELSE IF method = "coordinate_ranges" THEN "is_detroit_by_coordinate_ranges"
    ELSE "is_detroit_by_city_detection"
\* what the named predicate returns in the state of the call
NamedResult(o, cache) ==
    IF o.method = "gps_polygon" THEN is_detroit_by_gps_polygon(cache, o.x, o.y, o.z)
    ELSE IF o.method = "coordinate_ranges"
    THEN is_detroit_by_coordinate_ranges(cache, o.x, o.y)
    ELSE is_detroit_by_city_detection(cache, o.x, o.y, o.z)

\* C14: is_detroit_comprehensive with a method other than auto returns what the
\* one predicate the method names returns, enters that predicate once and
\* enters neither of the other two; with method auto it starts with the broad
\* check of the composite.
C14_MethodDispatch ==
    [][IsOp(op', "is_detroit_comprehensive") =>
         IF op'.method = "auto"
         THEN /\ Len(calls') >= 2
              /\ calls'[2].fn = "is_detroit_by_city_detection"
         ELSE LET named == NamedResult(op', coordinate_cache)
              IN  /\ ret' = named.ret
                  /\ coordinate_cache' = named.cache
                  /\ Entered(calls', Named(op'.method), Pt(op')) = 1
                  /\ \A fn \in Predicates \ { Named(op'.method) } :
                        ~EnteredAny(calls', fn)]_vars

\* method city_detection answers True for a point inside the broad box and
\* outside the ring, where the composite answers False
C14_Witness ==
    /\ IsOp(op, "is_detroit_comprehensive")
    /\ op.method = "city_detection"
    /\ prov[Pt(op)] = Returns(42700, -84000)
    /\ ~EnteredAny(calls, "is_detroit_by_gps_polygon")
    /\ ret = Bool(TRUE)

\* C15: get_detection_info returns a record for every point, holding what
\* coordinates_to_gps, the broad check, the range check and the composite with
\* method auto return for the point in the state of the call, each of them
\* entered whatever the others returned; the polygon field is False whenever
\* the projection in the record is None, and the polygon check's result otherwise.
C15_ExplainAllFields ==
    [][IsOp(op', "get_detection_info") =>
         LET x == op'.x
             y == op'.y
             z == op'.z
             cache == coordinate_cache
         IN  /\ ret'.tag = "info"
             /\ ret'.coordinates = <<x, y, z>>
             /\ ret'.gps_conversion = coordinates_to_gps(cache, x, y, z).ret
             /\ ret'.city_detection = is_detroit_by_city_detection(cache, x, y, z).ret.b
             /\ ret'.coordinate_ranges = is_detroit_by_coordinate_ranges(cache, x, y).ret.b
             /\ IsNone(ret'.gps_conversion) => ~ret'.gps_polygon
             /\ ret'.gps_conversion.tag = "gps" =>
                   ret'.gps_polygon = is_detroit_by_gps_polygon(cache, x, y, z).ret.b
             /\ ret'.comprehensive_result =
                   is_detroit_comprehensive(cache, x, y, z, "auto").ret.b
             /\ Entered(calls', "is_detroit_by_coordinate_ranges", <<x, y>>) = 1
             /\ Entered(calls', "is_detroit_comprehensive", <<x, y>>) = 1
             /\ Entered(calls', "is_detroit_by_city_detection", <<x, y>>) = 2]_vars

\* the record of a point in the range box for which the provider raises: the
\* projection is None, the polygon field False, the range field True
C15_Witness ==
    /\ IsOp(op, "get_detection_info")
    /\ prov[Pt(op)].raises
    /\ ret.tag = "info"
    /\ IsNone(ret.gps_conversion)
    /\ ret.coordinate_ranges
    /\ ~ret.gps_polygon
    /\ ~ret.comprehensive_result

\* C16: no operation of the classifier removes an entry of coordinate_cache or
\* changes the value of an entry; the set of cached keys only grows.
C16_CacheInsertionOnly ==
    [][\A cache_key \in DOMAIN coordinate_cache :
         /\ cache_key \in DOMAIN coordinate_cache'
         /\ coordinate_cache'[cache_key] = coordinate_cache[cache_key]]_vars

\* a projection served from a cache that has grown to hold every point
C16_Witness ==
    /\ IsOp(op, "coordinates_to_gps")
    /\ DOMAIN coordinate_cache = XY
    /\ ProviderPoints(calls) = {}
    /\ ret.tag = "gps"

\* how often the call record enters the provider for the point xy
ProviderCalls(evs, xy) == Entered(evs, "convert_city_coords_to_wgs84", xy)
CachedPairs(cache) ==
    \A cache_key \in DOMAIN cache : cache_key \in XY /\ Len(cache[cache_key]) = 2

\* C17: whenever coordinates_to_gps(x, y, z) returns a value, and whenever
\* get_gps_from_coords(x, y, z) returns, the third component is the z of that
\* call, on a miss and on a hit; both caches map (x, y) to (lat, lon), and the
\* caches after the call are the same whatever the z of the call.
C17_ZPassThrough ==
    [][/\ (IsOp(op', "coordinates_to_gps") /\ ret'.tag = "gps") => ret'.z = op'.z
       /\ IsOp(op', "get_gps_from_coords") => (ret'.tag = "gps" /\ ret'.z = op'.z)
       /\ CachedPairs(coordinate_cache')
       /\ CachedPairs(global_coordinate_cache')
       /\ IsOp(op', "coordinates_to_gps") =>
            \A z \in Zs :
              coordinate_cache' =
                coordinates_to_gps(coordinate_cache, op'.x, op'.y, z).cache
       /\ IsOp(op', "get_gps_from_coords") =>
            \A z \in Zs :
              LET other == get_gps_from_coords(global_coordinate_cache, coordinate_cache,
                                               detroit_only, op'.x, op'.y, z)
              IN  /\ global_coordinate_cache' = other.global_cache
                  /\ coordinate_cache' = other.cache]_vars

\* a polyline of one (x, y) at two altitudes: the provider is asked once, the
\* second point is a hit on the entry the first one wrote, and each converted
\* point carries its own z
C17_Witness ==
    /\ IsOp(op, "convert_polyline_to_gps")
    /\ Len(op.polyline) = 2
    /\ <<op.polyline[1].x, op.polyline[1].y>> = <<op.polyline[2].x, op.polyline[2].y>>
    /\ op.polyline[1].z = 0
    /\ op.polyline[2].z = 7
    /\ ProviderCalls(calls, <<op.polyline[1].x, op.polyline[1].y>>) = 1
    /\ ret.tag = "coords"
    /\ Len(ret.coords) = 2
    /\ ret.coords[1][3] = 0
    /\ ret.coords[2][3] = 7

\* batches[1] + batches[2] + ...
RECURSIVE Concatenation(_)
Concatenation(seqs) ==
    IF seqs = <<>> THEN <<>> ELSE Head(seqs) \o Concatenation(Tail(seqs))
\* the places of a scenario file in the submitted batches
PlacesOf(file) ==
    UNION { { <<future, i>> : i \in { j \in DOMAIN future_to_batch[future] :
                                          future_to_batch[future][j] = file } } :
            future \in DOMAIN future_to_batch }

\* C18: once create_split_kml has cut and submitted its batches, every
\* scenario file of the split is in exactly one submitted batch, no batch is
\* empty, and the batches in order, joined, are the list of scenario files.
C18_BatchesPartition ==
    pc # "start" =>
      /\ future_to_batch = batches
      /\ Concatenation(future_to_batch) = scenario_files
      /\ \A i \in DOMAIN scenario_files : Cardinality(PlacesOf(scenario_files[i])) = 1
      /\ \A future \in DOMAIN future_to_batch : future_to_batch[future] # <<>>

\* nine files and one worker: four batches of two files and a last batch of one
C18_Witness ==
    /\ pc = "as_completed"
    /\ Len(scenario_files) = 9
    /\ max_workers = 1
    /\ Len(future_to_batch) = 5
    /\ \A future \in 1..4 : Len(future_to_batch[future]) = 2
    /\ future_to_batch[5] = <<9>>

Started == { future \in DOMAIN worker : worker[future].state # "pending" }
WritersOf(written) == { written[cache_key] : cache_key \in DOMAIN written }

DegenerateEverywhere(xy) ==
    \A i \in DOMAIN city_names :
      LET lat_lon == convert_city_coords_to_wgs84_city(xy, city_names[i])
      IN  ~lat_lon.raises /\ ~IsUsable(lat_lon.lat, lat_lon.lon)
\* the points of a polyline that are not degenerate in every city
RECURSIVE Convertible(_)
Convertible(polyline) ==
    IF polyline = <<>> THEN <<>>
    ELSE (IF DegenerateEverywhere(<<Head(polyline).x, Head(polyline).y>>)
          THEN <<>> ELSE <<Head(polyline)>>) \o Convertible(Tail(polyline))

\* C20: in either mode of the processor, every entry of global_coordinate_cache
\* has |lat| > 0.1 and |lon| > 0.1; two calls of get_gps_from_coords in a row
\* with the same x, y, z return the same; a point degenerate in every city
\* yields (0.0, 0.0, z) on every call, and convert_polyline_to_gps drops it.
C20_GlobalCacheUsable ==
    [][/\ \A cache_key \in DOMAIN global_coordinate_cache' :
            IsUsable(global_coordinate_cache'[cache_key][1],
                     global_coordinate_cache'[cache_key][2])
       /\ (IsOp(op, "get_gps_from_coords") /\ op' = op) => ret' = ret
       /\ (IsOp(op', "get_gps_from_coords") /\ DegenerateEverywhere(Pt(op')))
            => ret' = Gps(0, 0, op'.z)
       /\ IsOp(op', "convert_polyline_to_gps") =>
            /\ ret'.tag = "coords"
            /\ Len(ret'.coords) <= Len(Convertible(op'.polyline))]_vars

\* the futures whose result the generator has merged, and the ones it found raised
Merged == { future \in DOMAIN worker : worker[future].state = "merged" }
Failed == { future \in DOMAIN worker : worker[future].state = "failed" }
\* what the results of the merged futures hold, taken in the order of submission
RECURSIVE ResultsUpTo(_)
ResultsUpTo(future) ==
    IF future = 0 THEN [features |-> <<>>, scenarios_processed |-> 0]
    ELSE IF future \in Merged
         THEN [features |-> ResultsUpTo(future - 1).features \o worker[future].features,
               scenarios_processed |-> ResultsUpTo(future - 1).scenarios_processed
                                         + worker[future].scenarios_processed]
         ELSE ResultsUpTo(future - 1)
Occurrences(seq, e) == Cardinality({ i \in DOMAIN seq : seq[i] = e })
SameMultiset(s, t) ==
    /\ Len(s) = Len(t)
    /\ \A i \in DOMAIN s : Occurrences(s, s[i]) = Occurrences(t, s[i])

\* C22: whatever the order in which the futures complete, all_features holds,
\* as a multiset, the features of the batches whose call returned, each batch
\* once, and total_stats is the sum of their stats; a future that raised adds
\* nothing and the futures after it are still merged; the result of a batch is
\* that of process_scenario_batch on the batch alone; scenarios_processed never
\* exceeds the number of scenario files.
C22_MergeOrderIndependent ==
    /\ SameMultiset(all_features, ResultsUpTo(Len(worker)).features)
    /\ total_stats = ResultsUpTo(Len(worker)).scenarios_processed
    /\ total_stats <= Len(scenario_files)
    /\ pc = "returned" =>
         /\ DOMAIN worker = Merged \cup Failed
         /\ \A future \in Merged :
              /\ worker[future].features =
                   process_scenario_batch(detroit_only, future_to_batch[future]).features
              /\ worker[future].scenarios_processed =
                   process_scenario_batch(detroit_only,
                                          future_to_batch[future]).scenarios_processed

\* create_split_kml returned having merged a later batch before an earlier one,
\* with a raised future in between the completions
C22_Witness ==
    /\ pc = "returned"
    /\ Failed # {}
    /\ Len(all_features) >= 3
    /\ all_features[1].name[1] > all_features[Len(all_features)].name[1]
    /\ \E future \in Merged : \E failed \in Failed : future > failed

\* C23: the provider answering the same for a point every time, the verdict of
\* is_detroit_comprehensive with method "auto" is the verdict of
\* is_detroit_by_gps_polygon, for every point and whatever the cache holds:
\* the broad check never rejects a point the polygon check accepts.
C23_AutoIsPolygon ==
    \A xy \in XY, z \in Zs :
       is_detroit_comprehensive(coordinate_cache, xy[1], xy[2], z, "auto").ret
         = is_detroit_by_gps_polygon(coordinate_cache, xy[1], xy[2], z).ret

\* "auto" answered True for a point, while the other point passes the broad
\* check and lies outside the ring
C23_Witness ==
    /\ IsOp(op, "is_detroit_comprehensive") /\ op.method = "auto"
    /\ ret = Bool(TRUE)
    /\ is_detroit_by_gps_polygon(coordinate_cache, op.x, op.y, op.z).ret = Bool(TRUE)
    /\ \E xy \in XY :
         /\ is_detroit_by_city_detection(coordinate_cache, xy[1], xy[2], 0).ret = Bool(TRUE)
         /\ is_detroit_by_gps_polygon(coordinate_cache, xy[1], xy[2], 0).ret = Bool(FALSE)
         /\ xy \in DOMAIN coordinate_cache

\* the map files of the three splits, in the order they are processed
AllMapFiles == map_files[1] \o map_files[2] \o map_files[3]

\* C24: when generate_all_kml_files has returned, stats['logs_processed'] is
\* the number of map files processed into the chunks of the splits, each
\* counted once, and lane_segments, pedestrian_crossings and drivable_areas
\* count each element of these files once.
C24_StatsCountOnce ==
    hd_pc.at = "returned" =>
       stats = process_map_files(ZeroStats, AllMapFiles)

\* C25: every chunk of every split holds fewer than 10,000 features, whatever
\* the map files and the numbers of their features.
C25_ChunkBelowLimit ==
    \A split \in DOMAIN kml_chunks :
       \A chunk \in DOMAIN kml_chunks[split] : kml_chunks[split][chunk] < FeatureLimit

\* the batches are 4 * max_workers in number and of one size
FourPerWorker ==
    /\ Len(batches) = 4 * max_workers
    /\ \A i, j \in DOMAIN batches : Len(batches[i]) = Len(batches[j])

LaneBoundaries(features) ==
    { i \in DOMAIN features : features[i].name[3] \in { "left", "right" } }
CrossingEdges(features) ==
    { i \in DOMAIN features : features[i].name[3] \in { "edge1", "edge2" } }
Areas(features) == { i \in DOMAIN features : features[i].name[3] = "area" }

\* C27: the counters lane_segments, pedestrian_crossings and drivable_areas of
\* the stats of a batch are the numbers of lane-boundary, crossing-edge and
\* drivable-area features extracted for the batch, so that they add up to the
\* number of features the batch returns.
C27_FeatureCounters ==
    \A future \in DOMAIN worker :
       /\ worker[future].stats.lane_segments
            = Cardinality(LaneBoundaries(worker[future].features))
       /\ worker[future].stats.pedestrian_crossings
            = Cardinality(CrossingEdges(worker[future].features))
       /\ worker[future].stats.drivable_areas
            = Cardinality(Areas(worker[future].features))
       /\ worker[future].stats.lane_segments + worker[future].stats.pedestrian_crossings
            + worker[future].stats.drivable_areas = Len(worker[future].features)

\* the verdict of analyze_scenario_location for a scenario file
IsDetroitScenario(scenario_id) ==
    LET analysis == analyze_scenario_location(EmptyCache, MapOfFile(scenario_id)).ret
    IN  ~IsRaised(analysis) /\ analysis.is_detroit
NoSamples(scenario_id) ==
    analyze_scenario_location(EmptyCache, MapOfFile(scenario_id)).ret.total_samples = 0
\* the scenarios of its batch a call has gone through
Gone(future) == { future_to_batch[future][i] : i \in 1..worker[future].done }
\* the scenarios the features of a call come from
Sources(future) ==
    { worker[future].features[i].name[1] : i \in DOMAIN worker[future].features }
\* the methods of RobustDetroitGeofence
GeofenceMethods ==
    { "coordinates_to_gps", "is_detroit_by_gps_polygon", "is_detroit_by_coordinate_ranges",
      "is_detroit_by_city_detection", "is_detroit_comprehensive", "get_detection_info",
      "analyze_scenario_location" }
\* what the next turn of the loop of a running call does
NextTurn(future) ==
    process_scenario(processors[new_processor(future)].global_coordinate_cache,
                     processors[new_processor(future)].coordinate_cache,
                     detroit_only,
                     MapOfFile(future_to_batch[future][worker[future].done + 1]),
                     future_to_batch[future][worker[future].done + 1])

\* C28: with detroit_only set, a scenario whose verdict is not Detroit, one
\* without any sampled point included, adds no feature to its batch and is not
\* counted in scenarios_processed, and every other scenario is counted; with
\* detroit_only unset every scenario is counted, and no method of the
\* classifier is entered and no classifier cache is written.
C28_DetroitFilter ==
    \A future \in DOMAIN worker :
       /\ detroit_only =>
            /\ \A scenario_id \in Gone(future) :
                  (NoSamples(scenario_id) \/ ~IsDetroitScenario(scenario_id))
                    => scenario_id \notin Sources(future)
            /\ worker[future].scenarios_processed
                 = Cardinality({ scenario_id \in Gone(future) :
                                   IsDetroitScenario(scenario_id) })
       /\ ~detroit_only =>
            /\ worker[future].scenarios_processed = worker[future].done
            /\ \A p \in DOMAIN processors :
                  /\ processors[p].coordinate_cache = EmptyCache
                  /\ writers[p].coordinate_cache = <<>>
            /\ (worker[future].state = "running"
                  /\ worker[future].done < Len(future_to_batch[future])) =>
                 \A i \in DOMAIN NextTurn(future).calls :
                    NextTurn(future).calls[i].fn \notin GeofenceMethods

\* with detroit_only set, a call returned for a batch of a Detroit scenario and
\* a scenario without samples, having counted and kept the first only; another
\* dropped a scenario outside Detroit
C28_Witness ==
    /\ detroit_only
    /\ \E future \in DOMAIN worker :
         /\ worker[future].state = "merged"
         /\ \E scenario_id \in Gone(future) : NoSamples(scenario_id)
         /\ worker[future].scenarios_processed = 1
         /\ Len(worker[future].features) = 1
         /\ Len(future_to_batch[future]) = 2
    /\ \E future \in DOMAIN worker :
         /\ worker[future].state = "merged"
         /\ \E scenario_id \in Gone(future) :
              ~NoSamples(scenario_id) /\ ~IsDetroitScenario(scenario_id)

\* the log ids of the listing, in its order
Listed == SelectSeq([i \in DOMAIN listing.lines |-> i],
                    LAMBDA i : listing.lines[i] = "DIR log_id/")
CheckFailed(log_id) == map_checks[log_id] \in { "timeout", "raises" }
CheckFound(log_id) == map_checks[log_id] = "found"

\* C29: find_detroit_logs_in_split lets no exception out; if the map check of
\* any listed log times out or raises, it returns [] for the split, whatever
\* was found before; otherwise it returns the listed logs whose check exited
\* with code 0 and non-blank output, in the order of the listing.
C29_FindLogs ==
    IsOp(op, "find_detroit_logs_in_split") =>
      /\ ret.tag = "logs"
      /\ (\E i \in DOMAIN Listed : CheckFailed(Listed[i])) => ret.logs = <<>>
      /\ (\A i \in DOMAIN Listed : ~CheckFailed(Listed[i]))
            => ret.logs = SelectSeq(Listed, CheckFound)

\* the first listed log was found and the check of the second timed out or
\* raised: [] was returned
C29_Witness ==
    /\ IsOp(op, "find_detroit_logs_in_split")
    /\ Len(Listed) >= 2
    /\ CheckFound(Listed[1])
    /\ CheckFailed(Listed[2])
    /\ ret = Logs(<<>>)

PoolDrained == \A task \in DOMAIN thread : thread[task].state = "done"

\* C21: once every task of the thread pool has finished, the counters
\* downloaded, skipped and failed of download_stats add up to the number of
\* (split, id) tasks submitted, whatever the interleaving of the threads, for
\* both downloaders.
C21_NoLostUpdate ==
    (downloader \in Downloaders /\ PoolDrained) =>
      download_stats.downloaded + download_stats.skipped + download_stats.failed
        = Len(all_downloads)

====
